---- MODULE Spec2Model ----
(***************************************************************************)
(* Model of the Miro board server core (src/miro_mcp_server.py, MiroCore): *)
(* cursor-paginated fetches, the bounds/type filter, connector selection,  *)
(* the adjacency graph, the breadth-first connectivity trace and search.   *)
(*                                                                         *)
(* One behaviour is one call of a core operation against one upstream      *)
(* board, made directly or through one of the two adapters (the MCP        *)
(* message handler, the analyze endpoint).  The upstream board is a        *)
(* sequence of pages per collection; a page request is one step of the     *)
(* fetch coroutine that issues it.  The SSE registry of the server and     *)
(* the OpenWebUI filter (src/miro_mcp_filter.py) are modelled beside it.   *)
(***************************************************************************)
EXTENDS Integers, Sequences, FiniteSets, TLC

VARIABLES
    access_token,   \* MiroCore.access_token is set (TRUE) or not (FALSE)
    upstream,       \* the board as the upstream API serves it
    call,           \* the operation called and its arguments
    pc,             \* where the called operation stands
    task,           \* the fetch coroutines, one per collection endpoint
    sent,           \* the upstream requests issued so far, in order
    visited,        \* get_connected_path: visited
    queue,          \* get_connected_path: queue
    paths,          \* get_connected_path: paths
    result,         \* what the operation returned or raised
    request,        \* the message or HTTP request an adapter received, if any
    replies,        \* the responses the adapter has returned, in order
    sse_connections, \* the SSE registry 'connections': connection id -> queue
    streams,        \* the SSE responses: their generator and their client
    valves,         \* Filter.valves
    item_cache,     \* Filter.item_cache: item id -> text
    chat            \* the last call of Filter.inlet: body, server outcome, return

core_vars == <<access_token, upstream, call, pc, task, sent, visited, queue, paths, result,
               request, replies>>
sse_vars == <<sse_connections, streams>>
filter_vars == <<valves, item_cache, chat>>
vars == <<core_vars, sse_vars, filter_vars>>

----------------------------------------------------------------------------
(* Bounds of the model *)

MaxConns == 3        \* connectors on a traced board
MaxDepth == 2        \* largest max_depth drawn besides the default
MaxPages == 3        \* pages a collection is split into
MaxCoord == 1        \* coordinates range over -1..MaxCoord
MaxText == 2         \* characters in an item text or a search text
MaxEdges == 2        \* connectors handed to the graph builder

(* Program constants *)

PageLimit == 50      \* params = {"limit": 50}
DefaultDepth == 5    \* max_depth: int = 5

----------------------------------------------------------------------------
(* Data *)

Ids == {"A", "B", "C"}
None == "None"       \* Python None where an id is expected
Absent == "absent"   \* the key is not in the dict
Null == "null"       \* the key is there and its value is null
Endpoints == Ids \cup {Absent, Null}
Collections == {"items", "connectors"}

\* A raw connector as the upstream API returns it: startItem/endItem are the
\* id inside the endpoint object, or Absent/Null when there is no object;
\* caption is captions[0].content ("" when there are no captions).
RawConnector(s, e, c) == [startItem |-> s, endItem |-> e, caption |-> c]

\* A raw item: id, type, the three text-bearing fields of "data" (a field
\* that is missing or null behaves as "" in every place the code reads it),
\* and position as a dict over a subset of {"x","y"} (None and {} are both
\* the dict with no keys: the code only tests position for truth).
RawItem(i, t, c, ti, tx, p) ==
    [id |-> i, type |-> t, content |-> c, title |-> ti, text |-> tx, position |-> p]

NoPosition == [k \in {} |-> 0]
NoText == <<>>
At(x, y) == [k \in {"x", "y"} |-> IF k = "x" THEN x ELSE y]

RECURSIVE Flatten(_)
Flatten(pages) ==
    IF pages = <<>> THEN <<>> ELSE Head(pages) \o Flatten(Tail(pages))

Range(s) == {s[i] : i \in DOMAIN s}

\* max(values, default=d)
MaxOf(S, d) ==
    IF S = {} THEN d ELSE CHOOSE y \in S : \A z \in S : z <= y

----------------------------------------------------------------------------
(* Upstream API *)

\* GET /boards/{id}/{collection}?limit=50[&cursor=c]: the page after cursor c
\* (0 is "no cursor"), with a cursor when more pages follow; a non-success
\* status (or a timeout) when that page is the one the upstream fails on.
Respond(ep, cursor) ==
    LET pages == upstream[ep]
        n == cursor + 1
    IN  IF upstream.fail[ep] = n
        THEN [status |-> 500, data |-> <<>>, cursor |-> 0]
        ELSE [status |-> 200,
              data |-> IF n <= Len(pages) THEN pages[n] ELSE <<>>,
              cursor |-> IF n < Len(pages) THEN n ELSE 0]

----------------------------------------------------------------------------
(* Pagination fetcher: fetch_all_items / fetch_all_connectors *)

IdleTask == [st |-> "idle", cursor |-> 0, acc |-> <<>>, error |-> ""]
StartTask == [IdleTask EXCEPT !.st = "start"]

\* mutant: the cursor of the response is never sent
ParamsWithoutCursor(cursor) == [limit |-> PageLimit, cursor |-> 0]

\* params = {"limit": 50}; if cursor: params["cursor"] = cursor
Params(cursor) == [limit |-> PageLimit, cursor |-> cursor]

\* mutant: the page replaces what was accumulated
ExtendReplaces(acc, data) == data

\* items.extend(data.get("data", []))
Extend(acc, data) == acc \o data

\* cursor = data.get("cursor"); if not cursor: break
LoopState(cursor) == IF cursor = 0 THEN "done" ELSE "loop"

\* mutant: the credential is never tested
NoTokenUntested == FALSE

\* if not self.access_token: raise ValueError(...)
NoToken == ~access_token

\* mutant: the status is never tested
RaiseForStatusSkipped(resp) == FALSE

\* response.raise_for_status()
RaiseForStatus(resp) == resp.status # 200

\* One step of a fetch coroutine: the credential test on entry, then one
\* page request and the handling of its response.
FetchStep(ep) ==
    /\ task[ep].st \in {"start", "loop"}
    /\ IF task[ep].st = "start" /\ NoToken
       THEN /\ task' = [task EXCEPT ![ep] =
                           [@ EXCEPT !.st = "failed", !.error = "ValueError"]]
            /\ UNCHANGED sent
       ELSE LET params == Params(task[ep].cursor)
                resp == Respond(ep, params.cursor)
            IN  /\ sent' = Append(sent, [endpoint |-> ep, params |-> params])
                /\ IF RaiseForStatus(resp)
                   THEN task' = [task EXCEPT ![ep] =
                                   [st |-> "failed", cursor |-> @.cursor,
                                    acc |-> @.acc, error |-> "HTTPStatusError"]]
                   ELSE task' = [task EXCEPT ![ep] =
                                   [st |-> LoopState(resp.cursor),
                                    cursor |-> resp.cursor,
                                    acc |-> Extend(@.acc, resp.data),
                                    error |-> ""]]

fetch_all_items ==
    /\ FetchStep("items")
    /\ UNCHANGED <<sse_vars, filter_vars, request, replies, access_token, upstream, call, pc, visited, queue, paths, result>>

fetch_all_connectors ==
    /\ FetchStep("connectors")
    /\ UNCHANGED <<sse_vars, filter_vars, request, replies, access_token, upstream, call, pc, visited, queue, paths, result>>

\* What the awaiting caller sees of a failed fetch: the exception only.
Raised(err) == [status |-> "error", error |-> err]

----------------------------------------------------------------------------
(* Connector endpoints *)

\* conn.get("startItem", {}).get("id"): raises AttributeError on a null object
UncheckedRaises(e) == e = Null
UncheckedId(e) == IF e = Absent THEN None ELSE e

\* conn.get("startItem", {}).get("id") if conn.get("startItem") else None
EndpointId(e) == IF e \in {Absent, Null} THEN None ELSE e

----------------------------------------------------------------------------
(* Connectivity tracer: get_connected_path *)

\* conn.get("startItem", {}).get("id") == cur or conn.get("endItem", {}).get("id") == cur
TouchRaises(conn, cur) ==
    \/ UncheckedRaises(conn.startItem)
    \/ /\ UncheckedId(conn.startItem) # cur
       /\ UncheckedRaises(conn.endItem)

Touches(conn, cur) ==
    \/ UncheckedId(conn.startItem) = cur
    \/ UncheckedId(conn.endItem) = cur

RECURSIVE Connections(_, _)
\* connections = [conn for conn in connectors if ... == current["id"] or ...]
Connections(connectors, cur) ==
    IF connectors = <<>> THEN <<>>
    ELSE (IF Touches(Head(connectors), cur) THEN <<Head(connectors)>> ELSE <<>>)
         \o Connections(Tail(connectors), cur)

\* mutant: connectors are followed from start to end only
NextIdDirected(conn, cur) == EndpointId(conn.endItem)

\* next_id = end_id if start_id == current["id"] else start_id
NextId(conn, cur) ==
    IF EndpointId(conn.startItem) = cur.id
    THEN EndpointId(conn.endItem)
    ELSE EndpointId(conn.startItem)

\* mutant: the visited set is not consulted
UnvisitedUnchecked(next_id, seen) == next_id # None

\* if next_id and next_id not in visited
Unvisited(next_id, seen) == next_id # None /\ next_id \notin seen

\* mutant: a hop keeps the depth of the item it leaves
HopDepthOfCurrent(cur) == cur.depth

\* "depth": current["depth"] + 1
HopDepth(cur) == cur.depth + 1

\* mutant: an item at max_depth is expanded too
LoopRunsAtMaxDepth(q, max_depth) == q # <<>> /\ Head(q).depth <= max_depth

\* while queue and queue[0]["depth"] < max_depth
LoopRuns(q, max_depth) == q # <<>> /\ Head(q).depth < max_depth

RECURSIVE Expand(_, _, _)
\* for conn in connections: ... over the locals st = [visited, queue, paths]
Expand(connections, cur, st) ==
    IF connections = <<>> THEN st
    ELSE LET conn == Head(connections)
             next_id == NextId(conn, cur)
         IN  IF Unvisited(next_id, st.visited)
             THEN Expand(Tail(connections), cur,
                    [visited |-> st.visited \cup {next_id},
                     queue |-> Append(st.queue, [id |-> next_id, depth |-> HopDepth(cur)]),
                     paths |-> Append(st.paths,
                                 [from |-> cur.id, to |-> next_id,
                                  label |-> conn.caption, depth |-> HopDepth(cur)])])
             ELSE Expand(Tail(connections), cur, st)

\* connectors = await self.fetch_all_connectors(board_id), then the locals
get_connected_path_init ==
    /\ pc = "await_connectors"
    /\ task["connectors"].st \in {"done", "failed"}
    /\ IF task["connectors"].st = "failed"
       THEN /\ pc' = "done"
            /\ result' = Raised(task["connectors"].error)
            /\ UNCHANGED <<visited, queue, paths>>
       ELSE /\ pc' = "trace"
            /\ visited' = {call.start_item_id}
            /\ queue' = <<[id |-> call.start_item_id, depth |-> 0]>>
            /\ paths' = <<>>
            /\ UNCHANGED result
    /\ UNCHANGED <<sse_vars, filter_vars, request, replies, access_token, upstream, call, task, sent>>

\* One iteration of the while loop.
get_connected_path_loop ==
    /\ pc = "trace"
    /\ LoopRuns(queue, call.max_depth)
    /\ LET connectors == task["connectors"].acc
           current == Head(queue)
       IN  IF \E i \in DOMAIN connectors : TouchRaises(connectors[i], current.id)
           THEN /\ pc' = "done"
                /\ result' = Raised("AttributeError")
                /\ UNCHANGED <<visited, queue, paths>>
           ELSE LET connections == Connections(connectors, current.id)
                    st == Expand(connections, current,
                                 [visited |-> visited, queue |-> Tail(queue),
                                  paths |-> paths])
                IN  /\ visited' = st.visited
                    /\ queue' = st.queue
                    /\ paths' = st.paths
                    /\ UNCHANGED <<pc, result>>
    /\ UNCHANGED <<sse_vars, filter_vars, request, replies, access_token, upstream, call, task, sent>>

\* The loop ends: all_items = await self.fetch_all_items(board_id) starts.
get_connected_path_hydrate ==
    /\ pc = "trace"
    /\ ~LoopRuns(queue, call.max_depth)
    /\ pc' = "await_items"
    /\ task' = [task EXCEPT !["items"] = StartTask]
    /\ UNCHANGED <<sse_vars, filter_vars, request, replies, access_token, upstream, call, sent, visited, queue, paths, result>>

----------------------------------------------------------------------------
(* Item normalizer: simplify_item *)

\* text = data.get("content") or data.get("title") or data.get("text") or ""
ResolveText(item) ==
    IF item.content # NoText THEN item.content
    ELSE IF item.title # NoText THEN item.title
    ELSE item.text

simplify_item(item) ==
    [id |-> item.id, type |-> item.type, text |-> ResolveText(item),
     position |-> item.position]

RECURSIVE SimplifyItems(_)
\* [self.simplify_item(item) for item in items]
SimplifyItems(items) ==
    IF items = <<>> THEN <<>>
    ELSE <<simplify_item(Head(items))>> \o SimplifyItems(Tail(items))

RECURSIVE VisitedItems(_, _)
\* visited_items = [item for item in all_items if item.get("id") in visited]
VisitedItems(all_items, seen) ==
    IF all_items = <<>> THEN <<>>
    ELSE (IF Head(all_items).id \in seen THEN <<Head(all_items)>> ELSE <<>>)
         \o VisitedItems(Tail(all_items), seen)

\* mutant: totalItems counts the visited ids
SummaryCountsVisited(visited_items, ps) ==
    [totalItems |-> Cardinality(visited),
     totalConnections |-> Len(ps),
     maxDepthReached |-> MaxOf({ps[i].depth : i \in DOMAIN ps}, 0)]

\* "summary": {...}
Summary(visited_items, ps) ==
    [totalItems |-> Len(visited_items),
     totalConnections |-> Len(ps),
     maxDepthReached |-> MaxOf({ps[i].depth : i \in DOMAIN ps}, 0)]

\* The call: the coroutine runs up to its first await.
get_connected_path_call ==
    /\ pc = "call"
    /\ call.op = "get_connected_path"
    /\ pc' = "await_connectors"
    /\ task' = [task EXCEPT !["connectors"] = StartTask]
    /\ UNCHANGED <<sse_vars, filter_vars, request, replies, access_token, upstream, call, sent, visited, queue, paths, result>>

\* all_items has arrived (or the fetch raised): build the return value.
get_connected_path_return ==
    /\ pc = "await_items"
    /\ task["items"].st \in {"done", "failed"}
    /\ pc' = "done"
    /\ IF task["items"].st = "failed"
       THEN result' = Raised(task["items"].error)
       ELSE LET visited_items == VisitedItems(task["items"].acc, visited)
            IN  result' = [status |-> "ok",
                           startItem |-> call.start_item_id,
                           traversalDepth |-> call.max_depth,
                           items |-> SimplifyItems(visited_items),
                           paths |-> paths,
                           summary |-> Summary(visited_items, paths)]
    /\ UNCHANGED <<sse_vars, filter_vars, request, replies, access_token, upstream, call, task, sent, visited, queue, paths>>

----------------------------------------------------------------------------
(* Filter engine, connector normalizer and graph builder: get_board_content *)

\* dict.get(key, default)
Get(d, k, default) == IF k \in DOMAIN d THEN d[k] ELSE default

\* a dict tested for truth: None and {} are false
Truthy(d) == DOMAIN d # {}

\* item.get("position") and bounds["left"] <= item["position"].get("x", 0)
\*   <= bounds["right"] and bounds["top"] <= item["position"].get("y", 0)
\*   <= bounds["bottom"]
InBounds(item, bounds) ==
    /\ Truthy(item.position)
    /\ bounds["left"] <= Get(item.position, "x", 0)
    /\ Get(item.position, "x", 0) <= bounds["right"]
    /\ bounds["top"] <= Get(item.position, "y", 0)
    /\ Get(item.position, "y", 0) <= bounds["bottom"]

RECURSIVE BoundsFilter(_, _)
\* [item for item in items if <in bounds>]
BoundsFilter(items, bounds) ==
    IF items = <<>> THEN <<>>
    ELSE (IF InBounds(Head(items), bounds) THEN <<Head(items)>> ELSE <<>>)
         \o BoundsFilter(Tail(items), bounds)

\* item.get("type") in include_types
TypeIncluded(item, types) == item.type \in Range(types)

RECURSIVE TypeFilter(_, _)
\* [item for item in filtered_items if item.get("type") in include_types]
TypeFilter(items, types) ==
    IF items = <<>> THEN <<>>
    ELSE (IF TypeIncluded(Head(items), types) THEN <<Head(items)>> ELSE <<>>)
         \o TypeFilter(Tail(items), types)

\* if include_types: (None and [] are both false)
TypesApply(include_types) == include_types.given /\ include_types.types # <<>>

\* filtered_items after "if bounds:" and "if include_types:"
FilteredItems(items, bounds, include_types) ==
    LET bounded == IF Truthy(bounds) THEN BoundsFilter(items, bounds) ELSE items
    IN  IF TypesApply(include_types)
        THEN TypeFilter(bounded, include_types.types)
        ELSE bounded

\* item_ids = {item.get("id") for item in filtered_items}
ItemIds(items) == {items[i].id : i \in DOMAIN items}

\* conn.get("startItem", {}).get("id") in item_ids or
\* conn.get("endItem", {}).get("id") in item_ids
RelevantRaises(conn, item_ids) ==
    \/ UncheckedRaises(conn.startItem)
    \/ /\ UncheckedId(conn.startItem) \notin item_ids
       /\ UncheckedRaises(conn.endItem)

Relevant(conn, item_ids) ==
    \/ UncheckedId(conn.startItem) \in item_ids
    \/ UncheckedId(conn.endItem) \in item_ids

RECURSIVE RelevantConnectors(_, _)
\* relevant_connectors = [conn for conn in connectors if ...]
RelevantConnectors(connectors, item_ids) ==
    IF connectors = <<>> THEN <<>>
    ELSE (IF Relevant(Head(connectors), item_ids) THEN <<Head(connectors)>> ELSE <<>>)
         \o RelevantConnectors(Tail(connectors), item_ids)

\* the id and style fields (plain copies) are left out
simplify_connector(conn) ==
    [from |-> EndpointId(conn.startItem), to |-> EndpointId(conn.endItem),
     label |-> conn.caption]

RECURSIVE SimplifyConnectors(_)
\* [self.simplify_connector(conn) for conn in relevant_connectors]
SimplifyConnectors(connectors) ==
    IF connectors = <<>> THEN <<>>
    ELSE <<simplify_connector(Head(connectors))>> \o SimplifyConnectors(Tail(connectors))

\* for item in items: graph[item.get("id")] = {...}  (the last item of an id wins)
GraphNodes(items) ==
    [id \in ItemIds(items) |->
        LET last == CHOOSE i \in DOMAIN items :
                        /\ items[i].id = id
                        /\ \A j \in DOMAIN items : items[j].id = id => j <= i
        IN  [text |-> ResolveText(items[last]), type |-> items[last].type,
             outgoing |-> <<>>, incoming |-> <<>>]]

\* mutant: an edge is entered only when both of its ends are nodes
AddEdgeBetweenNodes(graph, conn) ==
    LET start_id == EndpointId(conn.startItem)
        end_id == EndpointId(conn.endItem)
    IN  IF start_id \in DOMAIN graph /\ end_id \in DOMAIN graph
        THEN LET out == [graph EXCEPT ![start_id].outgoing =
                           Append(@, [to |-> end_id, label |-> conn.caption])]
             IN  [out EXCEPT ![end_id].incoming =
                    Append(@, [from |-> start_id, label |-> conn.caption])]
        ELSE graph

\* if start_id and end_id: the two appends of one connector
AddEdge(graph, conn) ==
    LET start_id == EndpointId(conn.startItem)
        end_id == EndpointId(conn.endItem)
        out == IF start_id \in DOMAIN graph
               THEN [graph EXCEPT ![start_id].outgoing =
                        Append(@, [to |-> end_id, label |-> conn.caption])]
               ELSE graph
    IN  IF start_id # None /\ end_id # None
        THEN IF end_id \in DOMAIN out
             THEN [out EXCEPT ![end_id].incoming =
                      Append(@, [from |-> start_id, label |-> conn.caption])]
             ELSE out
        ELSE graph

RECURSIVE AddEdges(_, _)
\* for conn in connectors: ...
AddEdges(graph, connectors) ==
    IF connectors = <<>> THEN graph
    ELSE AddEdges(AddEdge(graph, Head(connectors)), Tail(connectors))

RECURSIVE ConnectedItems(_, _)
ConnectedItems(items, connectors) ==
    IF items = <<>> THEN <<>>
    ELSE (IF \E i \in DOMAIN connectors :
                 Head(items).id \in {connectors[i].startItem, connectors[i].endItem}
          THEN <<Head(items)>> ELSE <<>>)
         \o ConnectedItems(Tail(items), connectors)

\* mutant: a node is made only for an item some connector names
BuildGraphOfConnected(items, connectors) ==
    AddEdges(GraphNodes(ConnectedItems(items, connectors)), connectors)

build_simple_graph(items, connectors) == AddEdges(GraphNodes(items), connectors)

\* build_simple_graph called on the items and connectors of the call
build_simple_graph_call ==
    /\ pc = "call"
    /\ call.op = "build_simple_graph"
    /\ pc' = "done"
    /\ result' = [status |-> "ok",
                  graph |-> build_simple_graph(call.items, call.connectors)]
    /\ UNCHANGED <<sse_vars, filter_vars, request, replies, access_token, upstream, call, task, sent, visited, queue,
                   paths>>

\* "itemCount": len(filtered_items)
ItemCount(filtered_items) == Len(filtered_items)

\* The call: asyncio.gather starts both fetch coroutines.
get_board_content_call ==
    /\ pc = "call"
    /\ call.op = "get_board_content"
    /\ pc' = "gather"
    /\ task' = [ep \in Collections |-> StartTask]
    /\ UNCHANGED <<sse_vars, filter_vars, request, replies, access_token, upstream, call, sent, visited, queue, paths, result>>

\* asyncio.gather raises the exception of a fetch that failed; the other
\* fetch coroutine is left running.
get_board_content_raise ==
    /\ pc = "gather"
    /\ \E ep \in Collections :
          /\ task[ep].st = "failed"
          /\ result' = Raised(task[ep].error)
    /\ pc' = "done"
    /\ UNCHANGED <<sse_vars, filter_vars, request, replies, access_token, upstream, call, task, sent, visited, queue, paths>>

\* mutant: the items alone are awaited
GatherReturnedItems == task["items"].st = "done"

\* items, connectors = await asyncio.gather(...): both fetches have returned
GatherReturned == \A ep \in Collections : task[ep].st = "done"

\* Both fetches have returned: filter, select the connectors, build the result.
get_board_content_return ==
    /\ pc = "gather"
    /\ GatherReturned
    /\ pc' = "done"
    /\ LET items == task["items"].acc
           connectors == task["connectors"].acc
           filtered_items == FilteredItems(items, call.bounds, call.include_types)
           item_ids == ItemIds(filtered_items)
           relevant_connectors == RelevantConnectors(connectors, item_ids)
       IN  IF \E i \in DOMAIN connectors : RelevantRaises(connectors[i], item_ids)
           THEN result' = Raised("AttributeError")
           ELSE result' =
                  [status |-> "ok",
                   metadata |-> [itemCount |-> ItemCount(filtered_items),
                                 connectorCount |-> Len(relevant_connectors)],
                   items |-> SimplifyItems(filtered_items),
                   connections |-> SimplifyConnectors(relevant_connectors),
                   graph |-> build_simple_graph(filtered_items, relevant_connectors)]
    /\ UNCHANGED <<sse_vars, filter_vars, request, replies, access_token, upstream, call, task, sent, visited, queue, paths>>

----------------------------------------------------------------------------
(* Search: search_items *)

\* str.lower() on the characters of the model's alphabet
LowerChar(c) == IF c = "A" THEN "a" ELSE IF c = "B" THEN "b" ELSE c
Lower(text) == [i \in DOMAIN text |-> LowerChar(text[i])]

\* search in compare_text
Contains(compare_text, search) ==
    \E k \in 0..(Len(compare_text) - Len(search)) :
        \A i \in 1..Len(search) : compare_text[k + i] = search[i]

\* mutant: the search text is compared as typed
SearchKeyAsTyped(search_text, case_sensitive) == search_text

\* search = search_text if case_sensitive else search_text.lower()
SearchKey(search_text, case_sensitive) ==
    IF case_sensitive THEN search_text ELSE Lower(search_text)

\* compare_text = text if case_sensitive else text.lower()
CompareText(text, case_sensitive) ==
    IF case_sensitive THEN text ELSE Lower(text)

Matches(item, search_text, case_sensitive) ==
    Contains(CompareText(ResolveText(item), case_sensitive),
             SearchKey(search_text, case_sensitive))

RECURSIVE MatchingItems(_, _, _)
\* for item in items: ... matching_items.append(item)
MatchingItems(items, search_text, case_sensitive) ==
    IF items = <<>> THEN <<>>
    ELSE (IF Matches(Head(items), search_text, case_sensitive)
          THEN <<Head(items)>> ELSE <<>>)
         \o MatchingItems(Tail(items), search_text, case_sensitive)

\* "resultCount": len(matching_items)
ResultCount(matching_items) == Len(matching_items)

search_items_call ==
    /\ pc = "call"
    /\ call.op = "search_items"
    /\ pc' = "await_search"
    /\ task' = [task EXCEPT !["items"] = StartTask]
    /\ UNCHANGED <<sse_vars, filter_vars, request, replies, access_token, upstream, call, sent, visited, queue, paths, result>>

search_items_return ==
    /\ pc = "await_search"
    /\ task["items"].st \in {"done", "failed"}
    /\ pc' = "done"
    /\ IF task["items"].st = "failed"
       THEN result' = Raised(task["items"].error)
       ELSE LET matching_items ==
                    MatchingItems(task["items"].acc, call.search_text, call.case_sensitive)
            IN  result' = [status |-> "ok",
                           query |-> call.search_text,
                           caseSensitive |-> call.case_sensitive,
                           resultCount |-> ResultCount(matching_items),
                           items |-> SimplifyItems(matching_items)]
    /\ UNCHANGED <<sse_vars, filter_vars, request, replies, access_token, upstream, call, task, sent, visited, queue, paths>>

----------------------------------------------------------------------------
(* Boards and calls the specifications draw from *)

SeqsUpTo(S, n) == UNION {[1..k -> S] : k \in 0..n}

NoFail == [items |-> 0, connectors |-> 0]
NoBounds == [k \in {} |-> 0]
NoRequest == [via |-> "none"]
NoCall == [op |-> "", bounds |-> NoBounds,
           include_types |-> [given |-> FALSE, types |-> <<>>],
           start_item_id |-> None, max_depth |-> 0,
           search_text |-> NoText, case_sensitive |-> FALSE]

\* One plain item per id: a shape at the origin whose content is its id.
PlainItem(i) == RawItem(i, "shape", <<i>>, NoText, NoText, At(0, 0))
PlainItems == <<PlainItem("A"), PlainItem("B"), PlainItem("C")>>
BoardAB == <<PlainItem("A"), PlainItem("B")>>

Depths == 0..MaxDepth \cup {DefaultDepth}

\* connections = {}
NoConnections == [c \in {} |-> <<>>]

\* Valves(): the defaults of the filter's settings
DefaultValves == [enabled |-> TRUE, max_items |-> 100, max_connections |-> 50]

\* self.item_cache = {}
EmptyCache == [i \in {} |-> NoText]

NoChat == [status |-> "none"]

\* No SSE stream has been opened and the filter is as constructed.
InitIdle ==
    /\ sse_connections = NoConnections
    /\ streams = NoConnections
    /\ valves = DefaultValves
    /\ item_cache = EmptyCache
    /\ chat = NoChat

\* No call has been made yet.
InitCore ==
    /\ pc = "call"
    /\ request = NoRequest
    /\ replies = <<>>
    /\ task = [ep \in Collections |-> IdleTask]
    /\ sent = <<>>
    /\ visited = {}
    /\ queue = <<>>
    /\ paths = <<>>
    /\ result = [status |-> "pending"]

InitCommon == InitIdle /\ InitCore

\* The connectors a traced board is made of: every connector between two
\* ids, and the connectors with a missing endpoint object at B (the ids are
\* interchangeable and the start id ranges over all of them).
TraceConnectors ==
    {RawConnector(s, e, "l") : s, e \in Ids}
    \cup {RawConnector(m, "B", "l") : m \in {Absent, Null}}
    \cup {RawConnector("B", m, "l") : m \in {Absent, Null}}

\* Tracing: every connector list, every depth, a start id that is B or is
\* not; one page per collection, no upstream failure.
InitTrace ==
    /\ access_token = TRUE
    /\ \E conns \in SeqsUpTo(TraceConnectors, MaxConns) :
          upstream = [items |-> <<PlainItems>>, connectors |-> <<conns>>, fail |-> NoFail]
    /\ \E s \in {"A", "B"}, d \in Depths :
          call = [NoCall EXCEPT !.op = "get_connected_path",
                                !.start_item_id = s, !.max_depth = d]
    /\ InitCommon

NextTrace ==
    \/ get_connected_path_call
    \/ fetch_all_connectors
    \/ get_connected_path_init
    \/ get_connected_path_loop
    \/ get_connected_path_hydrate
    \/ fetch_all_items
    \/ get_connected_path_return

SpecTrace == InitTrace /\ [][NextTrace]_vars

\* Every way of serving a collection as 1..n consecutive pages (a page may
\* be empty).
Slices(seq) == {SubSeq(seq, i, j) : i \in 1..(Len(seq) + 1), j \in 0..Len(seq)}
Splits(seq, n) ==
    {pages \in SeqsUpTo(Slices(seq), n) : pages # <<>> /\ Flatten(pages) = seq}
Prefixes(seq) == {SubSeq(seq, 1, k) : k \in 0..Len(seq)}

ChainAB == <<RawConnector("A", "B", "l"), RawConnector("B", "C", "l")>>

\* The three operations with plain arguments.
PlainCalls ==
    {[NoCall EXCEPT !.op = "get_board_content"],
     [NoCall EXCEPT !.op = "get_connected_path",
                    !.start_item_id = "A", !.max_depth = DefaultDepth],
     [NoCall EXCEPT !.op = "search_items", !.search_text = <<"a">>]}

\* Fetching: the credential set or not, every split of the two collections
\* into pages, every page the upstream may fail on, each operation.
Init ==
    /\ access_token \in BOOLEAN
    /\ \E items \in Prefixes(BoardAB) :
       \E ipages \in Splits(items, MaxPages), cpages \in Splits(ChainAB, MaxPages) :
       \E fail \in [Collections -> 0..MaxPages] :
          upstream = [items |-> ipages, connectors |-> cpages, fail |-> fail]
    /\ call \in PlainCalls
    /\ InitCommon

Next ==
    \/ get_board_content_call
    \/ get_connected_path_call
    \/ search_items_call
    \/ fetch_all_items
    \/ fetch_all_connectors
    \/ get_board_content_raise
    \/ get_board_content_return
    \/ get_connected_path_init
    \/ get_connected_path_loop
    \/ get_connected_path_hydrate
    \/ get_connected_path_return
    \/ search_items_return

Spec == Init /\ [][Next]_vars

\* A bounds dict with its four keys.
Box(l, r, t, b) ==
    [k \in {"left", "right", "top", "bottom"} |->
        IF k = "left" THEN l ELSE IF k = "right" THEN r ELSE IF k = "top" THEN t ELSE b]

BoardCall(bounds, include_types) ==
    [NoCall EXCEPT !.op = "get_board_content", !.bounds = bounds,
                   !.include_types = include_types]
NoTypes == [given |-> FALSE, types |-> <<>>]

\* Items A, B, C in a row at x = 0, 1, 2.
RowItems == <<RawItem("A", "shape", <<"A">>, NoText, NoText, At(0, 0)),
              RawItem("B", "shape", <<"B">>, NoText, NoText, At(1, 0)),
              RawItem("C", "shape", <<"C">>, NoText, NoText, At(2, 0))>>

\* no bounds (all items), and boxes around A, around B, around A and B, around none
RowBounds == {NoBounds, Box(0, 0, 0, 0), Box(1, 1, 0, 0), Box(0, 1, 0, 0), Box(5, 5, 0, 0)}

BoardConnectors ==
    TraceConnectors \cup {RawConnector(m, m, "l") : m \in {Absent, Null}}

\* Board content: every connector list over the row of items, under each
\* of the row's bounds; one page per collection, no upstream failure.
InitBoard ==
    /\ access_token = TRUE
    /\ \E conns \in SeqsUpTo(BoardConnectors, MaxConns) :
          upstream = [items |-> <<RowItems>>, connectors |-> <<conns>>, fail |-> NoFail]
    /\ \E b \in RowBounds : call = BoardCall(b, NoTypes)
    /\ InitCommon

NextBoard ==
    \/ get_board_content_call
    \/ fetch_all_items
    \/ fetch_all_connectors
    \/ get_board_content_return

SpecBoard == InitBoard /\ [][NextBoard]_vars

Coords == (0 - 1)..MaxCoord
Types == {"shape", "text"}

\* position: None or {} (no keys), or a dict with x, with y, or with both
Positions ==
    UNION {[K -> Coords] : K \in SUBSET {"x", "y"}}

Boxes == {Box(l, r, t, b) : l, r, t, b \in Coords}

TypeLists == {NoTypes, [given |-> TRUE, types |-> <<>>],
              [given |-> TRUE, types |-> <<"shape">>],
              [given |-> TRUE, types |-> <<"Shape">>]}

\* Filtering: one item of any position and type, alone or before or after
\* a plain item at the origin (the filter tests each item on its own),
\* under every box with left <= right and top <= bottom or no bounds, and
\* each type list.
InitFilter ==
    /\ access_token = TRUE
    /\ \E p \in Positions, t \in Types :
       LET x == RawItem("A", t, <<"A">>, NoText, NoText, p)
           anchor == PlainItem("B")
       IN  \E items \in {<<x>>, <<x, anchor>>, <<anchor, x>>} :
              upstream = [items |-> <<items>>, connectors |-> <<ChainAB>>, fail |-> NoFail]
    /\ \E b \in {NoBounds} \cup {bx \in Boxes : bx["left"] <= bx["right"] /\ bx["top"] <= bx["bottom"]},
          ts \in TypeLists :
          call = BoardCall(b, ts)
    /\ InitCommon

SpecFilter == InitFilter /\ [][NextBoard]_vars

Alphabet == {"a", "A", "b"}
Texts == SeqsUpTo(Alphabet, MaxText)
ShortTexts == SeqsUpTo(Alphabet, 1)

\* item A with its text in one of the three fields
TextIn(field, t) ==
    RawItem("A", "shape",
            IF field = "content" THEN t ELSE NoText,
            IF field = "title" THEN t ELSE NoText,
            IF field = "text" THEN t ELSE NoText, At(0, 0))

\* Searching: an empty board, item A with any text in any of its three
\* fields, or A followed by an item B with a short content; every search
\* text, case-sensitive or not.
InitSearch ==
    /\ access_token = TRUE
    /\ \E items \in {<<>>}
             \cup {<<TextIn(f, t)>> : f \in {"content", "title", "text"}, t \in Texts}
             \cup {<<TextIn("title", t), RawItem("B", "text", u, NoText, NoText, At(0, 0))>> :
                      t \in Texts, u \in ShortTexts} :
          upstream = [items |-> <<items>>, connectors |-> <<<<>>>>, fail |-> NoFail]
    /\ \E q \in Texts, cs \in BOOLEAN :
          call = [NoCall EXCEPT !.op = "search_items", !.search_text = q,
                                !.case_sensitive = cs]
    /\ InitCommon

NextSearch ==
    \/ search_items_call
    \/ fetch_all_items
    \/ search_items_return

SpecSearch == InitSearch /\ [][NextSearch]_vars

\* the connectors a graph is built from: each end a node-to-be, an item
\* that may have been filtered out, a missing key or a null; two labels
GraphConnectors ==
    {RawConnector(s, e, c) : s, e \in {"A", "B", Absent, Null}, c \in {"l", "m"}}

\* Graphs: build_simple_graph on no item, on A, and on A and B, with every
\* list of such connectors.
InitGraph ==
    /\ access_token = TRUE
    /\ upstream = [items |-> <<>>, connectors |-> <<>>, fail |-> NoFail]
    /\ \E items \in Prefixes(BoardAB), conns \in SeqsUpTo(GraphConnectors, MaxEdges) :
          call = [op |-> "build_simple_graph", items |-> items, connectors |-> conns]
    /\ InitCommon

SpecGraph == InitGraph /\ [][build_simple_graph_call]_vars

----------------------------------------------------------------------------
(* MCP adapter: handle_mcp_message *)

MethodNotFound == 0 - 32601
InvalidParams == 0 - 32602
InternalError == 0 - 32603

ToolNames == <<"get_miro_region", "get_miro_connected_path", "search_miro_items">>

\* a dict read with d[key]: the keys each tool subscripts, in the order
\* the call evaluates them
Subscripted(name) ==
    CASE name = "get_miro_region" -> <<"boardId">>
      [] name = "get_miro_connected_path" -> <<"boardId", "startItemId">>
      [] name = "search_miro_items" -> <<"boardId", "searchText">>

\* mutant: a missing key is not noticed
MissingKeyIgnored(arguments, keys) == None

\* the first key of keys that d[key] raises KeyError for (the text of the
\* KeyError is the key), None if there is none
MissingKey(arguments, keys) ==
    IF \A i \in DOMAIN keys : keys[i] \in DOMAIN arguments THEN None
    ELSE keys[CHOOSE i \in DOMAIN keys :
                 /\ keys[i] \notin DOMAIN arguments
                 /\ \A j \in 1..(i - 1) : keys[j] \in DOMAIN arguments]

\* the core call a tool is routed to (every subscripted key is present)
ToolCall(name, arguments) ==
    CASE name = "get_miro_region" ->
           [NoCall EXCEPT !.op = "get_board_content",
                          !.bounds = Get(arguments, "bounds", NoBounds)]
      [] name = "get_miro_connected_path" ->
           [NoCall EXCEPT !.op = "get_connected_path",
                          !.start_item_id = Get(arguments, "startItemId", None),
                          !.max_depth = Get(arguments, "maxDepth", DefaultDepth)]
      [] name = "search_miro_items" ->
           [NoCall EXCEPT !.op = "search_items",
                          !.search_text = Get(arguments, "searchText", NoText),
                          !.case_sensitive = Get(arguments, "caseSensitive", FALSE)]

McpResult(msg_id, r) == [jsonrpc |-> "2.0", id |-> msg_id, result |-> r]
McpError(msg_id, code, message) ==
    [jsonrpc |-> "2.0", id |-> msg_id,
     error |-> [code |-> code, message |-> message]]

\* json.dumps(result, indent=2): the text of the result
JsonDumps(r) == [json |-> r]

InitializeResult ==
    [protocolVersion |-> "2024-11-05",
     capabilities |-> [tools |-> <<>>],
     serverInfo |-> [name |-> "miro-board-reader", version |-> "2.0.0"]]
ToolsListResult == [tools |-> [i \in DOMAIN ToolNames |-> [name |-> ToolNames[i]]]]

\* mutant: a message without an id is answered like any other
IsNotificationNever(msg_id) == FALSE

\* msg_id = message.get("id"); if msg_id is None
IsNotification(msg_id) == msg_id \in {Absent, Null}

\* message.get("params", {}), params.get("arguments", {}): a value that is
\* missing (is = Absent), null (is = Null) or a dict (is = "dict")
NoArguments == [is |-> Absent, dict |-> NoBounds]
NoParams == [is |-> Absent, name |-> None, arguments |-> NoArguments]

\* the tools/call branch up to its first await: what the try block
\* returns or raises before any core call, or the core call it awaits
ToolsCall(params) ==
    IF params.is = Null
    THEN [kind |-> "raise", error |-> "AttributeError"]
    ELSE LET name == IF params.is = Absent THEN None ELSE params.name
             arguments == IF params.is = Absent THEN NoArguments ELSE params.arguments
         IN  IF name \notin Range(ToolNames)
             THEN [kind |-> "return", code |-> InvalidParams,
                   message |-> "Unknown tool"]
             ELSE IF arguments.is = Null
             THEN [kind |-> "raise", error |-> "TypeError"]
             ELSE LET dict == IF arguments.is = Absent THEN NoBounds ELSE arguments.dict
                      missing == MissingKey(dict, Subscripted(name))
                  IN  IF missing # None
                      THEN [kind |-> "raise", error |-> missing]
                      ELSE [kind |-> "await", call |-> ToolCall(name, dict)]

\* handle_mcp_message up to its return or its first await
handle_mcp_message ==
    /\ pc = "receive"
    /\ request.via = "mcp"
    /\ LET msg_id == request.id
           method == request.method
           out == ToolsCall(request.params)
       IN  IF IsNotification(msg_id)
           THEN /\ pc' = "answered"
                /\ UNCHANGED <<call, replies>>
           ELSE IF method = "initialize"
           THEN /\ pc' = "answered"
                /\ replies' = Append(replies, McpResult(msg_id, InitializeResult))
                /\ UNCHANGED call
           ELSE IF method = "tools/list"
           THEN /\ pc' = "answered"
                /\ replies' = Append(replies, McpResult(msg_id, ToolsListResult))
                /\ UNCHANGED call
           ELSE IF method = "tools/call"
           THEN CASE out.kind = "await" ->
                       /\ pc' = "call"
                       /\ call' = out.call
                       /\ UNCHANGED replies
                  [] out.kind = "return" ->
                       /\ pc' = "answered"
                       /\ replies' = Append(replies,
                                        McpError(msg_id, out.code, out.message))
                       /\ UNCHANGED call
                  [] out.kind = "raise" ->
                       /\ pc' = "answered"
                       /\ replies' = Append(replies,
                                        McpError(msg_id, InternalError, out.error))
                       /\ UNCHANGED call
           ELSE /\ pc' = "answered"
                /\ replies' = Append(replies,
                                 McpError(msg_id, MethodNotFound, "Method not found"))
                /\ UNCHANGED call
    /\ UNCHANGED <<sse_vars, filter_vars, request, access_token, upstream, task, sent, visited, queue, paths, result>>

\* the awaited core call has returned or raised: the result, or except Exception
handle_mcp_message_return ==
    /\ pc = "done"
    /\ request.via = "mcp"
    /\ pc' = "answered"
    /\ replies' = Append(replies,
          IF result.status = "ok"
          THEN McpResult(request.id,
                 [content |-> <<[type |-> "text", text |-> JsonDumps(result)]>>])
          ELSE McpError(request.id, InternalError, result.error))
    /\ UNCHANGED <<sse_vars, filter_vars, request, access_token, upstream, call, task, sent, visited, queue,
                   paths, result>>

----------------------------------------------------------------------------
(* Analyze endpoint: filter_analyze_board *)

\* not d.get(key): a missing key and an empty string are false (a search
\* text is a sequence of characters, the other values are strings)
Falsy(d, key) ==
    key \notin DOMAIN d \/ d[key] = (IF key = "search_text" THEN NoText ELSE "")

HTTPException(status_code, detail) ==
    [kind |-> "HTTPException", status_code |-> status_code, detail |-> detail]

NoException == [kind |-> "none", status_code |-> 0, detail |-> ""]

\* except Exception as e: JSONResponse(status_code=500,
\*     content={"success": False, "error": str(e)}), given the text of e
ExceptionResponse(text) ==
    [status_code |-> 500, content |-> [success |-> FALSE, error |-> text]]

\* JSONResponse(content={"success": True, "data": result, "command": command})
SuccessResponse(r, command) ==
    [status_code |-> 200, content |-> [success |-> TRUE, data |-> r, command |-> command]]

\* command = data.get("command", "full_board")
Command(data) == Get(data, "command", "full_board")

\* the exception the try block raises before any core call, if any
Validation(data) ==
    IF Falsy(data, "board_id")
    THEN HTTPException(400, "board_id is required")
    ELSE CASE Command(data) = "full_board" -> NoException
           [] Command(data) = "connected_path" ->
                IF Falsy(data.params, "start_item_id")
                THEN HTTPException(400, "start_item_id required for connected_path")
                ELSE NoException
           [] Command(data) = "search" ->
                IF Falsy(data.params, "search_text")
                THEN HTTPException(400, "search_text required for search")
                ELSE NoException
           [] OTHER -> HTTPException(400, "Unknown command")

\* the core call a command is routed to
CommandCall(data) ==
    CASE Command(data) = "full_board" -> [NoCall EXCEPT !.op = "get_board_content"]
      [] Command(data) = "connected_path" ->
           [NoCall EXCEPT !.op = "get_connected_path",
                          !.start_item_id = data.params.start_item_id,
                          !.max_depth = DefaultDepth]
      [] Command(data) = "search" ->
           [NoCall EXCEPT !.op = "search_items",
                          !.search_text = data.params.search_text]
      [] OTHER -> NoCall

\* filter_analyze_board up to its return or its first await of the core
filter_analyze_board ==
    /\ pc = "receive"
    /\ request.via = "analyze"
    /\ IF Validation(request) # NoException
       THEN /\ pc' = "answered"
            /\ replies' = Append(replies, ExceptionResponse(Validation(request).detail))
            /\ UNCHANGED call
       ELSE /\ pc' = "call"
            /\ call' = CommandCall(request)
            /\ UNCHANGED replies
    /\ UNCHANGED <<sse_vars, filter_vars, request, access_token, upstream, task, sent, visited, queue, paths, result>>

\* the awaited core call has returned or raised
filter_analyze_board_return ==
    /\ pc = "done"
    /\ request.via = "analyze"
    /\ pc' = "answered"
    /\ replies' = Append(replies,
          IF result.status = "ok"
          THEN SuccessResponse(result, Command(request))
          ELSE ExceptionResponse(result.error))
    /\ UNCHANGED <<sse_vars, filter_vars, request, access_token, upstream, call, task, sent, visited, queue,
                   paths, result>>

----------------------------------------------------------------------------
(* Requests the adapters receive *)

\* a dict with any of the keys of d
SubDicts(d) == {[k \in K |-> d[k]] : K \in SUBSET DOMAIN d}

ArgumentValues == [boardId |-> "b", startItemId |-> "A", searchText |-> <<"a">>]

\* arguments: missing, null, or a dict with any of the subscripted keys
ArgumentsOfCalls ==
    {NoArguments, [NoArguments EXCEPT !.is = Null]}
    \cup {[is |-> "dict", dict |-> d] : d \in SubDicts(ArgumentValues)}

\* params: missing, null, or a dict with a name (or none) and arguments
ParamsOfMessages ==
    {NoParams, [NoParams EXCEPT !.is = Null]}
    \cup {[is |-> "dict", name |-> n, arguments |-> a] :
            n \in Range(ToolNames) \cup {"other", None},
            a \in ArgumentsOfCalls}

McpMessages ==
    {[via |-> "mcp", id |-> i, method |-> m, params |-> p] :
        i \in {Absent, Null, "0", "7"},
        m \in {"initialize", "tools/list", "tools/call", "ping", None},
        p \in ParamsOfMessages}

\* the body of an analyze request: any of board_id, command and params'
\* two keys missing, empty or set
AnalyzeRequests ==
    UNION {{[via |-> "analyze", params |-> p] @@ d :
              d \in SubDicts([board_id |-> b, command |-> c]),
              p \in SubDicts([start_item_id |-> s, search_text |-> t])} :
           b \in {"", "b"},
           c \in {"full_board", "connected_path", "search", "other"},
           s \in {"", "A"},
           t \in {NoText, <<"a">>}}

\* Adapters: every message and request above against the board A, B with
\* connectors A->B, B->C, one page per collection, the first items page
\* refused or not, the credential set or not.
InitAdapter ==
    /\ InitIdle
    /\ access_token \in BOOLEAN
    /\ \E f \in {NoFail, [NoFail EXCEPT !.items = 1]} :
          upstream = [items |-> <<BoardAB>>, connectors |-> <<ChainAB>>, fail |-> f]
    /\ request \in McpMessages \cup AnalyzeRequests
    /\ replies = <<>>
    /\ call = NoCall
    /\ pc = "receive"
    /\ task = [ep \in Collections |-> IdleTask]
    /\ sent = <<>>
    /\ visited = {}
    /\ queue = <<>>
    /\ paths = <<>>
    /\ result = [status |-> "pending"]

NextAdapter ==
    \/ handle_mcp_message
    \/ handle_mcp_message_return
    \/ filter_analyze_board
    \/ filter_analyze_board_return
    \/ Next

SpecAdapter == InitAdapter /\ [][NextAdapter]_vars

----------------------------------------------------------------------------
(* Claims about the pagination fetcher *)

\* the requests sent to one endpoint, in order
RECURSIVE SentTo(_, _)
SentTo(log, ep) ==
    IF log = <<>> THEN <<>>
    ELSE (IF Head(log).endpoint = ep THEN <<Head(log)>> ELSE <<>>)
         \o SentTo(Tail(log), ep)

\* the upstream answered request r with a non-success status
Refused(r) == upstream.fail[r.endpoint] = r.params.cursor + 1
SomeRefused == \E i \in DOMAIN sent : Refused(sent[i])

\* C3: a fetch that has received k pages holds the concatenation of the
\* first k pages, and a finished fetch holds the whole collection as one
\* page would have given it, whatever the split; a board returned from
\* them has one item per upstream item, in upstream order.
C3_PaginationTransparent ==
    /\ \A ep \in Collections :
          /\ task[ep].st \in {"loop", "done"} =>
                task[ep].acc = Flatten(SubSeq(upstream[ep], 1, Len(SentTo(sent, ep))))
          /\ task[ep].st = "done" => task[ep].acc = Flatten(upstream[ep])
    /\ (call.op = "get_board_content" /\ pc = "done" /\ result.status = "ok") =>
          [i \in DOMAIN result.items |-> result.items[i].id]
             = [i \in DOMAIN Flatten(upstream.items) |-> Flatten(upstream.items)[i].id]

\* C3 witness: a two-item collection served as three pages, the first of
\* them empty, fetched to the end.
C3_Witness ==
    /\ task["items"].st = "done"
    /\ Len(upstream.items) = 3
    /\ upstream.items[1] = <<>>
    /\ Len(task["items"].acc) = 2
    /\ Len(SentTo(sent, "items")) = 3

\* C7: without the credential no upstream request is ever issued and the
\* operation, whichever it is, ends by raising the configuration error.
C7_NoTokenNoRequest ==
    ~access_token =>
        /\ sent = <<>>
        /\ pc = "done" => result = Raised("ValueError")
        /\ \A ep \in Collections : task[ep].st \in {"idle", "start", "failed"}

\* C7 witness: a board call without the credential has ended with the
\* configuration error after both of its fetches refused to start.
C7_Witness ==
    /\ ~access_token
    /\ call.op = "get_board_content"
    /\ pc = "done"
    /\ result.status = "error"
    /\ \A ep \in Collections : task[ep].st = "failed"

\* C8: once a page request has been answered with a non-success status the
\* fetch has failed, the operation can only end in
\* an error that carries no element, and no request is ever issued twice
\* (the refused request is the last one sent to its endpoint).
C8_FailedPageAborts ==
    /\ \A i \in DOMAIN sent :
          Refused(sent[i]) =>
              /\ task[sent[i].endpoint].st = "failed"
              /\ \A j \in DOMAIN sent : sent[j].endpoint = sent[i].endpoint => j <= i
    /\ \A i, j \in DOMAIN sent : sent[i] = sent[j] => i = j
    /\ (SomeRefused /\ pc = "done") =>
          /\ result.status = "error"
          /\ DOMAIN result = {"status", "error"}

\* C8 witness: the second page of the items collection was refused after a
\* first page with elements had arrived, and the board call ended in error.
C8_Witness ==
    /\ call.op = "get_board_content"
    /\ pc = "done"
    /\ task["items"].st = "failed"
    /\ task["items"].acc # <<>>
    /\ Len(SentTo(sent, "items")) = 2
    /\ result.status = "error"

----------------------------------------------------------------------------
(* Claims about the connectivity tracer *)

TraceDone == call.op = "get_connected_path" /\ pc = "done"
TraceReturned == TraceDone /\ result.status = "ok"
FetchedConnectors == task["connectors"].acc
Hop(p) == [from |-> p.from, to |-> p.to, depth |-> p.depth]
Hops(ps) == [i \in DOMAIN ps |-> Hop(ps[i])]

\* C1: in every state of a trace, each id is the 'to' of at most one
\* recorded path, the start id is the 'to' of none, and every recorded
\* depth lies in 1..max_depth.
C1_VisitOnceWithinDepth ==
    call.op = "get_connected_path" =>
        /\ \A i, j \in DOMAIN paths : paths[i].to = paths[j].to => i = j
        /\ \A i \in DOMAIN paths :
              /\ paths[i].to # call.start_item_id
              /\ 1 <= paths[i].depth
              /\ paths[i].depth <= call.max_depth

\* C1 witness: a finished trace over three connectors that recorded two
\* hops, the deeper one at exactly max_depth, so one connector led back to
\* a visited item and the depth bound stopped the loop.
C1_Witness ==
    /\ TraceReturned
    /\ Len(FetchedConnectors) = 3
    /\ Len(paths) = 2
    /\ paths[2].depth = call.max_depth
    /\ \E i \in DOMAIN FetchedConnectors :
          /\ FetchedConnectors[i].startItem \in visited
          /\ FetchedConnectors[i].endItem = call.start_item_id

CycleABC == <<RawConnector("A", "B", "l"), RawConnector("B", "C", "l"),
              RawConnector("C", "A", "l")>>
CycleTraced ==
    /\ TraceReturned
    /\ FetchedConnectors = CycleABC
    /\ call.start_item_id = "A"
    /\ call.max_depth = 2

\* C2 as stated: on the cycle A->B, B->C, C->A traced from A with
\* max_depth 2 the paths are A->B at depth 1 and B->C at depth 2.
C2_Original ==
    CycleTraced =>
        /\ visited = {"A", "B", "C"}
        /\ Hops(result.paths) = <<[from |-> "A", to |-> "B", depth |-> 1],
                                  [from |-> "B", to |-> "C", depth |-> 2]>>

\* C2 amended: on that cycle the trace visits exactly {A,B,C} and records
\* exactly two paths, A->B at depth 1 and A->C at depth 1: while A is
\* expanded the connector C->A is followed from its end to its start.
C2_CycleFromA ==
    CycleTraced =>
        /\ visited = {"A", "B", "C"}
        /\ Hops(result.paths) = <<[from |-> "A", to |-> "B", depth |-> 1],
                                  [from |-> "A", to |-> "C", depth |-> 1]>>
        /\ result.summary.totalItems = 3

C2_Witness == CycleTraced /\ Len(result.paths) = 2

\* C9 as stated: a trace with max_depth 5 from an item no connector touches
\* returns that item alone, no paths, and a summary of 0 connections and
\* depth 0.
C9_IsolatedStart ==
    ( /\ TraceDone
      /\ call.max_depth = DefaultDepth
      /\ \A i \in DOMAIN FetchedConnectors :
            /\ FetchedConnectors[i].startItem # call.start_item_id
            /\ FetchedConnectors[i].endItem # call.start_item_id )
    => /\ result.status = "ok"
       /\ visited = {call.start_item_id}
       /\ {result.items[i].id : i \in DOMAIN result.items} = {call.start_item_id}
       /\ result.paths = <<>>
       /\ result.summary.totalConnections = 0
       /\ result.summary.maxDepthReached = 0

\* C9 on the boards where no endpoint object is null: the same statement
\* for every trace that returned.
C9_IsolatedStartReturned == TraceReturned => C9_IsolatedStart

\* a returned trace with max_depth 5 from an item that none of three
\* connectors touches
C9_ReturnedWitness ==
    /\ TraceReturned
    /\ call.max_depth = DefaultDepth
    /\ Len(FetchedConnectors) = 3
    /\ result.paths = <<>>
    /\ \A i \in DOMAIN FetchedConnectors :
          call.start_item_id \notin {FetchedConnectors[i].startItem,
                                     FetchedConnectors[i].endItem}

----------------------------------------------------------------------------
(* Claims about the filter engine and the graph builder *)

BoardDone == call.op = "get_board_content" /\ pc = "done"
BoardReturned == BoardDone /\ result.status = "ok"
UpstreamItems == Flatten(upstream.items)
UpstreamConnectors == Flatten(upstream.connectors)
ReturnedIds == {result.items[i].id : i \in DOMAIN result.items}

\* the box test as the data model states it: a position with both
\* coordinates, inside the box, edges included
HasBothCoordinates(item) == {"x", "y"} \subseteq DOMAIN item.position
InsideBox(item, b) ==
    /\ HasBothCoordinates(item)
    /\ b["left"] <= item.position["x"] /\ item.position["x"] <= b["right"]
    /\ b["top"] <= item.position["y"] /\ item.position["y"] <= b["bottom"]

\* an endpoint object that is there and names one of the ids
NamesOneOf(e, ids) == e \notin {Absent, Null} /\ e \in ids
HasEndpointIn(conn, ids) ==
    NamesOneOf(conn.startItem, ids) \/ NamesOneOf(conn.endItem, ids)

\* the ids that survive filtering on a board whose items all have both
\* coordinates and with no type list
SurvivorIds ==
    {UpstreamItems[i].id : i \in {j \in DOMAIN UpstreamItems :
        Truthy(call.bounds) => InsideBox(UpstreamItems[j], call.bounds)}}

\* the connectors with an endpoint among the survivors, in fetch order
ExpectedConnections ==
    LET Retained(conn) == HasEndpointIn(conn, SurvivorIds)
    IN  SelectSeq(UpstreamConnectors, Retained)

\* C4 as stated: a board call returns, and its 'connections' are exactly
\* the fetched connectors with at least one endpoint id among the ids of
\* the filtered items, in fetch order; a connector with both endpoints
\* missing is left out.
C4_OneSidedRetention ==
    BoardDone =>
        /\ result.status = "ok"
        /\ result.connections =
              [i \in DOMAIN ExpectedConnections |->
                  [from |-> EndpointId(ExpectedConnections[i].startItem),
                   to |-> EndpointId(ExpectedConnections[i].endItem),
                   label |-> ExpectedConnections[i].caption]]

\* C4 on the boards where no endpoint object is null: the same statement
\* for every board call that returned.
C4_OneSidedRetentionReturned == BoardReturned => C4_OneSidedRetention

\* a returned board with a connector kept on the strength of one endpoint,
\* the other endpoint filtered out, and a connector dropped
C4_ReturnedWitness ==
    /\ BoardReturned
    /\ Truthy(call.bounds)
    /\ Len(result.connections) = 1
    /\ Len(UpstreamConnectors) = 2
    /\ result.connections[1].from \in ReturnedIds
    /\ result.connections[1].to \in Ids \ ReturnedIds

\* C5 as stated: with bounds supplied (and no type list) the returned items
\* are exactly the items that have a position with both coordinates inside
\* the box, edges included, in fetch order.
C5_BoundsInclusive ==
    (BoardDone /\ Truthy(call.bounds) /\ ~call.include_types.given) =>
        /\ result.status = "ok"
        /\ [i \in DOMAIN result.items |-> result.items[i].id]
              = LET Kept(item) == InsideBox(item, call.bounds)
                    kept == SelectSeq(UpstreamItems, Kept)
                IN  [i \in DOMAIN kept |-> kept[i].id]

\* C5 on the items that have both coordinates: the same statement for
\* boards whose positioned items all carry x and y.
C5_BoundsInclusiveOfFullPositions ==
    (\A i \in DOMAIN UpstreamItems :
        Truthy(UpstreamItems[i].position) => HasBothCoordinates(UpstreamItems[i]))
    => C5_BoundsInclusive

\* C6: in every returned board the keys of the graph are exactly the ids of
\* the filtered (returned) items, every node has its outgoing and incoming
\* lists, both of them empty for an item that no returned connection
\* names, and itemCount is the number of returned items.
C6_GraphNodesAreFilteredItems ==
    BoardReturned =>
        /\ DOMAIN result.graph = ReturnedIds
        /\ ReturnedIds = SurvivorIds
        /\ \A id \in ReturnedIds :
              /\ {"outgoing", "incoming"} \subseteq DOMAIN result.graph[id]
              /\ (\A i \in DOMAIN result.connections :
                     id \notin {result.connections[i].from, result.connections[i].to})
                 => /\ result.graph[id].outgoing = <<>>
                    /\ result.graph[id].incoming = <<>>
        /\ result.metadata.itemCount = Len(result.items)

\* C6 witness: a returned board, filtered by bounds, with two nodes of
\* which one has an edge and the other is named by no connection.
C6_Witness ==
    /\ BoardReturned
    /\ Truthy(call.bounds)
    /\ Cardinality(DOMAIN result.graph) = 2
    /\ \E a, b \in DOMAIN result.graph :
          /\ result.graph[a].outgoing # <<>>
          /\ result.graph[b].outgoing = <<>>
          /\ result.graph[b].incoming = <<>>
          /\ \A i \in DOMAIN result.connections :
                b \notin {result.connections[i].from, result.connections[i].to}

----------------------------------------------------------------------------
(* Claims about search *)

SearchReturned == call.op = "search_items" /\ pc = "done" /\ result.status = "ok"

\* the text of an item: its first non-empty field among content, title, text
FirstText(item) ==
    CHOOSE t \in {item.content, item.title, item.text, NoText} :
        \/ t = item.content /\ t # NoText
        \/ item.content = NoText /\ t = item.title /\ t # NoText
        \/ item.content = NoText /\ item.title = NoText /\ t = item.text

Folded(t) ==
    [i \in DOMAIN t |-> CASE t[i] = "A" -> "a" [] t[i] = "B" -> "b" [] OTHER -> t[i]]
IsSubstring(u, v) ==
    \E i \in 1..(Len(v) + 1), j \in 0..Len(v) : SubSeq(v, i, j) = u

\* C10: a returned search holds exactly the fetched items whose text has
\* the search text as a substring -- both lowercased unless caseSensitive,
\* verbatim if it is -- in fetch order, and resultCount counts them all.
C10_SearchSubstring ==
    SearchReturned =>
        LET Hit(item) ==
                IF call.case_sensitive
                THEN IsSubstring(call.search_text, FirstText(item))
                ELSE IsSubstring(Folded(call.search_text), Folded(FirstText(item)))
            hits == SelectSeq(UpstreamItems, Hit)
        IN  /\ [i \in DOMAIN result.items |-> result.items[i].id]
                  = [i \in DOMAIN hits |-> hits[i].id]
            /\ \A i \in DOMAIN result.items : result.items[i].text = FirstText(hits[i])
            /\ result.resultCount = Len(result.items)

\* C10 witness: a case-insensitive search typed in upper case returned
\* both items of the board, one of them spelt in lower case and found
\* through its title.
C10_Witness ==
    /\ SearchReturned
    /\ ~call.case_sensitive
    /\ call.search_text = <<"A">>
    /\ result.resultCount = 2
    /\ \E i \in DOMAIN result.items : result.items[i].text = <<"b", "a">>

----------------------------------------------------------------------------
(* Claims about connectors with a missing endpoint object *)

MissingEndpoint(conn) ==
    conn.startItem \in {Absent, Null} \/ conn.endItem \in {Absent, Null}
SomeMissingEndpoint(connectors) ==
    \E i \in DOMAIN connectors : MissingEndpoint(connectors[i])
NullEndpoint(connectors) ==
    \E i \in DOMAIN connectors :
        connectors[i].startItem = Null \/ connectors[i].endItem = Null

\* the ids a graph names as the far end of an edge
EdgeEnds(graph) ==
    UNION {{graph[id].outgoing[i].to : i \in DOMAIN graph[id].outgoing}
           \cup {graph[id].incoming[i].from : i \in DOMAIN graph[id].incoming}
           : id \in DOMAIN graph}

\* C11 as stated: a board call over connectors some of which lack an
\* endpoint object (key absent or value null) returns; the returned
\* connections carry no id on the missing side and the graph has no edge
\* to or from a missing end.
C11_MissingEndpointHarmless ==
    (BoardDone /\ SomeMissingEndpoint(UpstreamConnectors)) =>
        /\ result.status = "ok"
        /\ \A i \in DOMAIN result.connections :
              /\ result.connections[i].from \in Ids \cup {None}
              /\ result.connections[i].to \in Ids \cup {None}
        /\ EdgeEnds(result.graph) \subseteq Ids

\* C11 on the boards where a missing endpoint object is an absent key,
\* never a null value: the same statement.
C11_AbsentKeyHarmless ==
    ~NullEndpoint(UpstreamConnectors) => C11_MissingEndpointHarmless

\* a returned board with a connector that has no startItem key, kept with
\* no 'from' id, and no edge in the graph
C11_AbsentKeyWitness ==
    /\ BoardReturned
    /\ \E i \in DOMAIN UpstreamConnectors : UpstreamConnectors[i].startItem = Absent
    /\ \E i \in DOMAIN result.connections : result.connections[i].from = None
    /\ EdgeEnds(result.graph) = {}

\* C11 for the tracer, on the boards where no endpoint object is null: a
\* trace over connectors with an absent endpoint key ends normally and no
\* path leads to or from a missing end.
C11_AbsentKeyTraced ==
    (TraceDone /\ ~NullEndpoint(FetchedConnectors)) =>
        /\ result.status = "ok"
        /\ \A i \in DOMAIN paths : {paths[i].from, paths[i].to} \subseteq Ids

\* the null value in the tracer: a trace over a connector whose startItem
\* is null, touching nothing, still ends normally
C11_NullTraced ==
    (TraceDone /\ NullEndpoint(FetchedConnectors)) => result.status = "ok"

----------------------------------------------------------------------------
(* Claims about the type filter *)

\* an item that passes the bounds filter of the call, if the call has one
PassesBounds(item) == Truthy(call.bounds) => InBounds(item, call.bounds)
ListsType(types, item) == \E k \in DOMAIN types : types[k] = item.type
IdsOf(items) == [i \in DOMAIN items |-> items[i].id]

\* C12 as stated: whenever a type list is supplied, the empty list
\* included, the returned items are exactly the fetched items that pass
\* the bounds filter and whose type is spelt in the list, in fetch order;
\* and filtering by type before or after the bounds gives the same items.
C12_TypeFilterWhenSupplied ==
    (BoardDone /\ call.include_types.given) =>
        LET types == call.include_types.types
            Kept(item) == PassesBounds(item) /\ ListsType(types, item)
        IN  /\ result.status = "ok"
            /\ IdsOf(result.items) = IdsOf(SelectSeq(UpstreamItems, Kept))
            /\ Truthy(call.bounds) =>
                  TypeFilter(BoundsFilter(UpstreamItems, call.bounds), types)
                    = BoundsFilter(TypeFilter(UpstreamItems, types), call.bounds)

\* C12 for the lists that name a type: the same statement.
C12_TypeFilterOfNamedTypes ==
    call.include_types.types # <<>> => C12_TypeFilterWhenSupplied

\* a returned board with two items inside the box, of which the list
\* ["shape"] kept one
C12_NamedTypesWitness ==
    /\ BoardReturned
    /\ Truthy(call.bounds)
    /\ call.include_types.types = <<"shape">>
    /\ Len(UpstreamItems) = 2
    /\ \A i \in DOMAIN UpstreamItems : PassesBounds(UpstreamItems[i])
    /\ Len(result.items) = 1

----------------------------------------------------------------------------
(* Claims about the traversal summary *)

RingConnectors == {RawConnector("A", "B", "l"), RawConnector("B", "C", "l"),
                   RawConnector("C", "A", "l")}

\* Summaries: boards holding none, some or all of the items A, B, C, whose
\* connectors may name items the board does not hold, traced from any id
\* at every depth, a negative one included; one page per collection, no
\* upstream failure.
InitSummary ==
    /\ access_token = TRUE
    /\ \E items \in Prefixes(PlainItems), conns \in SeqsUpTo(RingConnectors, MaxConns) :
          upstream = [items |-> <<items>>, connectors |-> <<conns>>, fail |-> NoFail]
    /\ \E s \in Ids, d \in {0 - 1} \cup Depths :
          call = [NoCall EXCEPT !.op = "get_connected_path",
                                !.start_item_id = s, !.max_depth = d]
    /\ InitCommon

SpecSummary == InitSummary /\ [][NextTrace]_vars

\* the largest depth among the paths, 0 when there are none
LargestDepth(ps) ==
    IF ps = <<>> THEN 0
    ELSE CHOOSE d \in {ps[i].depth : i \in DOMAIN ps} :
            \A i \in DOMAIN ps : ps[i].depth <= d

\* C13 as stated: in a returned trace totalItems is the number of ids in
\* the visited set, totalConnections the number of paths, and
\* maxDepthReached the largest path depth, 0 with no paths.
C13_Original ==
    TraceReturned =>
        /\ result.summary.totalItems = Cardinality(visited)
        /\ result.summary.totalConnections = Len(result.paths)
        /\ result.summary.maxDepthReached = LargestDepth(result.paths)

\* C13 amended: totalItems is the number of fetched items whose id is in
\* the visited set, which is the length of the returned item list, and is
\* the size of the visited set when every visited id is the id of exactly
\* one fetched item; totalConnections and maxDepthReached are as stated.
C13_SummaryCounts ==
    TraceReturned =>
        LET held == {i \in DOMAIN UpstreamItems : UpstreamItems[i].id \in visited}
        IN  /\ result.summary.totalItems = Cardinality(held)
            /\ result.summary.totalItems = Len(result.items)
            /\ (\A id \in visited :
                   Cardinality({i \in held : UpstreamItems[i].id = id}) = 1)
               => result.summary.totalItems = Cardinality(visited)
            /\ result.summary.totalConnections = Len(result.paths)
            /\ result.summary.maxDepthReached = LargestDepth(result.paths)

\* C13 witness: a returned trace that visited three ids along two paths,
\* the deeper at depth 2, on a board that holds two of the three items.
C13_Witness ==
    /\ TraceReturned
    /\ Cardinality(visited) = 3
    /\ Len(UpstreamItems) = 2
    /\ result.summary = [totalItems |-> 2, totalConnections |-> 2,
                         maxDepthReached |-> 2]

----------------------------------------------------------------------------
(* Claims about breadth-first depths and the depth limit *)

\* the connectors with both endpoint ids present join their two items
Joined(conn, u, v) ==
    \/ conn.startItem = u /\ conn.endItem = v
    \/ conn.startItem = v /\ conn.endItem = u

\* the ids one such connector away from an id of the set, and the set
Grown(connectors, near) ==
    near \cup {v \in Ids : \E u \in near, i \in DOMAIN connectors :
                              Joined(connectors[i], u, v)}

RECURSIVE Within(_, _, _)
\* the ids joined to s by a chain of at most k such connectors, followed
\* in either direction
Within(connectors, s, k) ==
    IF k <= 0 THEN {s} ELSE Grown(connectors, Within(connectors, s, k - 1))

TraceLoopExited ==
    /\ call.op = "get_connected_path"
    /\ pc = "await_items" \/ (pc = "done" /\ result.status = "ok")

ReachedAt(id, d) ==
    \/ id = call.start_item_id /\ d = 0
    \/ \E j \in DOMAIN paths : paths[j].to = id /\ paths[j].depth = d

----------------------------------------------------------------------------
(* Claims about the two concurrent fetches of get_board_content *)

\* C16: a board call returns a result only when both fetches have
\* completed, and that result is the one the two whole collections
\* determine -- the same whatever the order in which the page requests of
\* the two fetches were sent; a board call one of whose fetches failed
\* ends with an error that carries no item and no connection.
C16_GatherJoinsBoth ==
    BoardDone =>
        /\ result.status = "ok" =>
              /\ \A ep \in Collections :
                    /\ task[ep].st = "done"
                    /\ Len(SentTo(sent, ep)) = Len(upstream[ep])
              /\ IdsOf(result.items) = IdsOf(UpstreamItems)
              /\ result.metadata = [itemCount |-> Len(UpstreamItems),
                                    connectorCount |-> Len(ExpectedConnections)]
              /\ result.connections =
                    [i \in DOMAIN ExpectedConnections |->
                        [from |-> ExpectedConnections[i].startItem,
                         to |-> ExpectedConnections[i].endItem,
                         label |-> ExpectedConnections[i].caption]]
        /\ (\E ep \in Collections : task[ep].st = "failed") =>
              /\ result.status = "error"
              /\ {"items", "connections", "graph"} \cap DOMAIN result = {}

\* C16 witness: a returned board whose page requests alternated between
\* the two collections, connectors first.
C16_Witness ==
    /\ BoardReturned
    /\ Len(sent) = 4
    /\ [i \in DOMAIN sent |-> sent[i].endpoint]
          = <<"connectors", "items", "connectors", "items">>

\* C17 as stated: once a board call has ended with the error of a failed
\* fetch, no step issues a further upstream page request.
C17_AbortStopsSibling ==
    [][(BoardDone /\ result.status = "error") => sent' = sent]_vars

\* what the code does guarantee: the fetch that failed issues no further
\* request, and the call's result no longer changes
C17_FailedFetchStops ==
    [][\A ep \in Collections :
          task[ep].st = "failed" =>
              /\ SentTo(sent', ep) = SentTo(sent, ep)
              /\ (BoardDone => result' = result)]_vars

----------------------------------------------------------------------------
(* Claims about the two adapters *)

Answered == pc = "answered"
HasId == request.via = "mcp" /\ request.id \notin {Absent, Null}

\* the keys of the arguments a tools/call message carries
ArgumentKeys ==
    IF request.params.is = "dict" /\ request.params.arguments.is = "dict"
    THEN DOMAIN request.params.arguments.dict
    ELSE {}

\* a tools/call message with an id that names a tool and lacks the
\* argument the tool requires
McpLacksRequired ==
    /\ HasId
    /\ request.method = "tools/call"
    /\ request.params.is = "dict"
    /\ \/ /\ request.params.name = "get_miro_connected_path"
          /\ "startItemId" \notin ArgumentKeys
       \/ /\ request.params.name = "search_miro_items"
          /\ "searchText" \notin ArgumentKeys

CommandIs(c) == "command" \in DOMAIN request /\ request.command = c

\* an analyze request whose command lacks the argument it requires
AnalyzeLacksRequired ==
    /\ request.via = "analyze"
    /\ \/ CommandIs("connected_path") /\ "start_item_id" \notin DOMAIN request.params
       \/ CommandIs("search") /\ "search_text" \notin DOMAIN request.params

IsMcpError(r) == "error" \in DOMAIN r /\ "result" \notin DOMAIN r
IsHttpError(r) == r.status_code >= 400 /\ ~r.content.success

\* C14: a request that lacks the argument its tool or command requires
\* never reaches a core operation and never causes an upstream request,
\* and its one answer is an error.
C14_MissingArgumentRejected ==
    (McpLacksRequired \/ AnalyzeLacksRequired) =>
        /\ sent = <<>>
        /\ call = NoCall
        /\ pc \in {"receive", "answered"}
        /\ Answered =>
              /\ Len(replies) = 1
              /\ McpLacksRequired => IsMcpError(replies[1])
              /\ AnalyzeLacksRequired => IsHttpError(replies[1])

\* C14 witness: a tools/call of get_miro_connected_path with a boardId and
\* no startItemId, answered with an error, the credential being set.
C14_Witness ==
    /\ Answered
    /\ McpLacksRequired
    /\ access_token
    /\ request.params.name = "get_miro_connected_path"
    /\ ArgumentKeys = {"boardId", "searchText"}
    /\ IsMcpError(replies[1])

\* an analyze request the endpoint's validation is written to refuse
AnalyzeInvalid ==
    /\ request.via = "analyze"
    /\ \/ "board_id" \notin DOMAIN request
       \/ AnalyzeLacksRequired
       \/ CommandIs("other")

\* C15 as stated: an analyze request with no board_id, connected_path
\* without start_item_id, search without search_text or an unknown
\* command is answered with the HTTP 400 validation error.
C15_ValidationAnswered400 ==
    (AnalyzeInvalid /\ Answered) =>
        /\ Len(replies) = 1
        /\ replies[1].status_code = 400

\* what the endpoint answers to such a request: status 500 with
\* success false and the text of the validation error, no upstream request
C15_ValidationAnswered500 ==
    (AnalyzeInvalid /\ Answered) =>
        /\ sent = <<>>
        /\ Len(replies) = 1
        /\ replies[1].status_code = 500
        /\ ~replies[1].content.success
        /\ replies[1].content.error \in
              {"board_id is required", "start_item_id required for connected_path",
               "search_text required for search", "Unknown command"}

\* C18: a message without an id is never answered; a message with an id
\* is answered once, when the handler returns, with its own id and
\* exactly one of result and error: initialize with serverInfo, tools/list
\* with the three tools, any other method but tools/call with -32601, a
\* tools/call of an unknown tool with -32602, a tool that raised (or
\* arguments that could not be read) with -32603, a tool that returned
\* with its result.
C18_McpResponses ==
    request.via = "mcp" =>
        /\ ~Answered => replies = <<>>
        /\ (Answered /\ ~HasId) => replies = <<>> /\ sent = <<>>
        /\ (Answered /\ HasId) =>
              /\ Len(replies) = 1
              /\ replies[1].id = request.id
              /\ IsMcpError(replies[1]) \/
                    ("result" \in DOMAIN replies[1] /\ "error" \notin DOMAIN replies[1])
              /\ request.method = "initialize" =>
                    /\ "result" \in DOMAIN replies[1]
                    /\ "serverInfo" \in DOMAIN replies[1].result
              /\ request.method = "tools/list" =>
                    /\ "result" \in DOMAIN replies[1]
                    /\ Len(replies[1].result.tools) = 3
                    /\ {replies[1].result.tools[i].name : i \in 1..3}
                          = {"get_miro_region", "get_miro_connected_path",
                             "search_miro_items"}
              /\ request.method \notin {"initialize", "tools/list", "tools/call"} =>
                    IsMcpError(replies[1]) /\ replies[1].error.code = 0 - 32601
              /\ request.method = "tools/call" =>
                    IF request.params.is = Null
                    THEN IsMcpError(replies[1]) /\ replies[1].error.code = 0 - 32603
                    ELSE IF request.params.is = Absent
                            \/ request.params.name \notin
                                  {"get_miro_region", "get_miro_connected_path",
                                   "search_miro_items"}
                    THEN IsMcpError(replies[1]) /\ replies[1].error.code = 0 - 32602
                    ELSE IF result.status = "ok"
                    THEN /\ "result" \in DOMAIN replies[1]
                         /\ replies[1].result.content[1].text = JsonDumps(result)
                    ELSE IsMcpError(replies[1]) /\ replies[1].error.code = 0 - 32603

\* C18 witness: a tools/call with id "0" whose tool raised on a refused
\* page request was answered with -32603 under that id.
C18_Witness ==
    /\ Answered
    /\ request.via = "mcp"
    /\ request.id = "0"
    /\ request.method = "tools/call"
    /\ SomeRefused
    /\ result = Raised("HTTPStatusError")
    /\ replies = <<[jsonrpc |-> "2.0", id |-> "0",
                    error |-> [code |-> 0 - 32603, message |-> "HTTPStatusError"]]>>

----------------------------------------------------------------------------
(* Claims about the termination of the traversal loop *)

LoopConnectors ==
    {RawConnector("A", "A", "l"), RawConnector("A", "B", "l"),
     RawConnector("B", "A", "l"), RawConnector("B", "C", "l"),
     RawConnector("C", "A", "l")}

\* Loops: every list of connectors drawn from a self-loop at the start
\* item, a pair of opposite connectors and a three-item cycle, repeats
\* included, traced from A at every depth; one page per collection, no
\* upstream failure.
InitLoops ==
    /\ access_token = TRUE
    /\ \E conns \in SeqsUpTo(LoopConnectors, MaxConns) :
          upstream = [items |-> <<PlainItems>>, connectors |-> <<conns>>, fail |-> NoFail]
    /\ \E d \in Depths :
          call = [NoCall EXCEPT !.op = "get_connected_path",
                                !.start_item_id = "A", !.max_depth = d]
    /\ InitCommon

\* the coroutine of the operation is resumed until it returns
SpecLoops == InitLoops /\ [][NextTrace]_vars /\ WF_vars(NextTrace)

Tracing == call.op = "get_connected_path" /\ pc \notin {"call", "await_connectors"}

\* the entries taken off the queue so far: one per loop iteration
Iterations == (Len(paths) + 1) - Len(queue)

\* the ids a chain of connectors joins to the start item
Reachable == Within(FetchedConnectors, call.start_item_id, Cardinality(Ids))

\* what holds in every state of a trace
LoopBounded ==
    Tracing =>
        /\ \A i, j \in DOMAIN queue : queue[i].id = queue[j].id => i = j
        /\ \A i, j \in DOMAIN paths : paths[i].to = paths[j].to => i = j
        /\ \A i \in DOMAIN paths : paths[i].to # call.start_item_id
        /\ Len(paths) = Cardinality(visited) - 1
        /\ visited \subseteq Reachable
        /\ Iterations <= Cardinality(Reachable)

\* a step of the loop takes exactly one entry off the queue
LoopStep ==
    (pc = "trace" /\ pc' = "trace") =>
        /\ Iterations' = Iterations + 1
        /\ Len(queue') >= Len(queue) - 1

\* C21: every trace ends; in every state of it each id has been enqueued
\* at most once, the paths are one fewer than the visited ids, and the loop
\* iterations run so far, each of which takes one entry off the queue, are
\* at most the ids reachable from the start item.
C21_LoopTerminates ==
    /\ []LoopBounded
    /\ [][LoopStep]_vars
    /\ <>(pc = "done")

\* C21 witness: a returned trace over a self-loop at the start item and
\* the same connector twice, after two iterations and one path.
C21_Witness ==
    /\ TraceReturned
    /\ FetchedConnectors = <<RawConnector("A", "A", "l"), RawConnector("A", "B", "l"),
                             RawConnector("A", "B", "l")>>
    /\ call.max_depth = DefaultDepth
    /\ Iterations = 2
    /\ Len(paths) = 1

----------------------------------------------------------------------------
(* Claims about the request chain of one fetch *)

\* the response the upstream gave to a request
ResponseTo(r) == Respond(r.endpoint, r.params.cursor)

\* C22: in every state the requests sent to one endpoint form a chain: the
\* first carries no cursor, each later one follows a successful response
\* that carried a cursor and carries exactly that cursor, all ask for 50
\* elements; a fetch still running holds the cursor of the last response,
\* and a fetch that returned did so on the first response without a
\* cursor, after as many requests as pages were served.
C22_RequestChain ==
    \A ep \in Collections :
        LET reqs == SentTo(sent, ep)
            n == Len(reqs)
        IN  /\ \A i \in 1..n : reqs[i].params.limit = 50
            /\ n >= 1 => reqs[1].params.cursor = 0
            /\ \A i \in 2..n :
                  /\ ResponseTo(reqs[i - 1]).status = 200
                  /\ ResponseTo(reqs[i - 1]).cursor # 0
                  /\ reqs[i].params.cursor = ResponseTo(reqs[i - 1]).cursor
            /\ task[ep].st \in {"idle", "start"} => n = 0
            /\ task[ep].st = "loop" =>
                  /\ n >= 1
                  /\ task[ep].cursor = ResponseTo(reqs[n]).cursor
                  /\ task[ep].cursor # 0
            /\ task[ep].st = "done" =>
                  /\ n >= 1
                  /\ ResponseTo(reqs[n]).status = 200
                  /\ ResponseTo(reqs[n]).cursor = 0
                  /\ n = Len(upstream[ep])

\* C22 witness: a fetch of the connectors that returned after three
\* requests, carrying no cursor, the first cursor and the second, while
\* requests for items were sent in between.
C22_Witness ==
    /\ task["connectors"].st = "done"
    /\ [i \in DOMAIN SentTo(sent, "connectors") |->
           SentTo(sent, "connectors")[i].params.cursor] = <<0, 1, 2>>
    /\ \E i \in DOMAIN sent :
          /\ sent[i].endpoint = "items"
          /\ \E j, k \in DOMAIN sent :
                j < i /\ i < k /\ sent[j].endpoint = "connectors"
                               /\ sent[k].endpoint = "connectors"

----------------------------------------------------------------------------
(* Claims about the edges of the graph *)

GraphBuilt == call.op = "build_simple_graph" /\ pc = "done"
IsId(e) == e \notin {Absent, Null}
BothEnds(conn) == IsId(conn.startItem) /\ IsId(conn.endItem)

\* the connectors with both ends present that leave a, and that arrive at a
Leaving(connectors, a) ==
    LET Leaves(conn) == BothEnds(conn) /\ conn.startItem = a
    IN  SelectSeq(connectors, Leaves)
Arriving(connectors, a) ==
    LET Arrives(conn) == BothEnds(conn) /\ conn.endItem = a
    IN  SelectSeq(connectors, Arrives)

\* the labels, in order, of the entries of a list that name b
LabelsTo(outgoing, b) ==
    LET Names(entry) == entry.to = b
        named == SelectSeq(outgoing, Names)
    IN  [i \in DOMAIN named |-> named[i].label]
LabelsFrom(incoming, b) ==
    LET Names(entry) == entry.from = b
        named == SelectSeq(incoming, Names)
    IN  [i \in DOMAIN named |-> named[i].label]

\* C23: the graph built from items and connectors has one node per item
\* id and no other; a node's outgoing list holds, in connector order, one
\* {to, label} per connector with both ends present that leaves it, and
\* its incoming list one {from, label} per such connector that arrives at
\* it, whether or not the other end is a node; and between two nodes the
\* outgoing entries of one match the incoming entries of the other.
C23_GraphEdges ==
    GraphBuilt =>
        LET graph == result.graph
        IN  /\ DOMAIN graph = {call.items[i].id : i \in DOMAIN call.items}
            /\ \A a \in DOMAIN graph :
                  LET out == Leaving(call.connectors, a)
                      inc == Arriving(call.connectors, a)
                  IN  /\ graph[a].outgoing =
                            [i \in DOMAIN out |->
                                [to |-> out[i].endItem, label |-> out[i].caption]]
                      /\ graph[a].incoming =
                            [i \in DOMAIN inc |->
                                [from |-> inc[i].startItem, label |-> inc[i].caption]]
            /\ \A a, b \in DOMAIN graph :
                  LabelsTo(graph[a].outgoing, b) = LabelsFrom(graph[b].incoming, a)

\* C23 witness: the graph of the single item A built from A->B labelled m
\* and B->A labelled l: A has one outgoing and one incoming entry, both
\* naming B, which is no node.
C23_Witness ==
    /\ GraphBuilt
    /\ call.connectors = <<RawConnector("A", "B", "m"), RawConnector("B", "A", "l")>>
    /\ DOMAIN result.graph = {"A"}
    /\ result.graph["A"].outgoing = <<[to |-> "B", label |-> "m"]>>
    /\ result.graph["A"].incoming = <<[from |-> "B", label |-> "l"]>>

----------------------------------------------------------------------------
(* OpenWebUI filter: src/miro_mcp_filter.py.  A message content is the     *)
(* sequence of its words; a formatted text is the sequence of its lines,   *)
(* each line a record of what it prints ("\n".join of no lines is "").     *)

\* seq[:n]
Take(seq, n) == SubSeq(seq, 1, IF Len(seq) < n THEN Len(seq) ELSE n)

\* {}
EmptyDict == [k \in {} |-> 0]

\* text.strip(): a text of blanks only becomes ""
Strip(text) == IF text = " " THEN "" ELSE text

\* word in content
Has(content, word) == \E i \in DOMAIN content : content[i] = word

\* return None
NoParsed == [command |-> "None"]

\* The board regex matches the word "[b]"; the command regexes match the
\* words "find q", "path from A", "depth 1" and "shapes".
_parse_request(content) ==
    IF ~Has(content, "[b]") THEN NoParsed
    ELSE IF Has(content, "find q")
    THEN [board_id |-> "b", command |-> "search", params |-> [search_text |-> "q"]]
    ELSE IF Has(content, "path from A")
    THEN [board_id |-> "b", command |-> "connected_path",
          params |-> [start_item_id |-> "A",
                      max_depth |-> IF Has(content, "depth 1") THEN 1 ELSE DefaultDepth]]
    ELSE IF Has(content, "shapes")
    THEN [board_id |-> "b", command |-> "full_board",
          params |-> [include_types |-> <<"shape">>]]
    ELSE [board_id |-> "b", command |-> "full_board", params |-> EmptyDict]

RECURSIVE CacheItems(_, _)
\* self.item_cache[item["id"]] = item.get("text", "") for each shown item
CacheItems(cache, items) ==
    IF items = <<>> THEN cache
    ELSE LET item == Head(items)
         IN  CacheItems([id \in DOMAIN cache \cup {item.id} |->
                            IF id = item.id THEN Get(item, "text", "") ELSE cache[id]],
                        Tail(items))

RECURSIVE TypesInOrder(_, _)
\* the keys of by_type, in insertion order
TypesInOrder(items, seen) ==
    IF items = <<>> THEN <<>>
    ELSE LET item_type == Get(Head(items), "type", "unknown")
         IN  IF item_type \in seen THEN TypesInOrder(Tail(items), seen)
             ELSE <<item_type>> \o TypesInOrder(Tail(items), seen \cup {item_type})

\* by_type[item_type]
OfType(items, item_type) ==
    SelectSeq(items, LAMBDA item : Get(item, "type", "unknown") = item_type)

\* the lines of one type: its heading, then each shape in full or the
\* first 20 other items
TypeLines(type_items, item_type) ==
    <<[line |-> "type", type |-> item_type, count |-> Len(type_items)]>> \o
    (IF item_type = "shape"
     THEN [idx \in DOMAIN type_items |->
             [line |-> "shape", idx |-> idx,
              id |-> Get(type_items[idx], "id", "no-id"),
              shape |-> Get(Get(type_items[idx], "style", EmptyDict), "shape", "unspecified"),
              text |-> Strip(Get(type_items[idx], "text", ""))]]
     ELSE [idx \in DOMAIN Take(type_items, 20) |->
             [line |-> "item", idx |-> idx,
              id |-> Get(type_items[idx], "id", "no-id"),
              text |-> Strip(Get(type_items[idx], "text", ""))]])

RECURSIVE GroupLines(_, _)
\* for item_type, type_items in by_type.items()
GroupLines(shown, types) ==
    IF types = <<>> THEN <<>>
    ELSE TypeLines(OfType(shown, Head(types)), Head(types)) \o GroupLines(shown, Tail(types))

\* if items: the ITEMS block
ItemLines(items, max_items) ==
    IF items = <<>> THEN <<>>
    ELSE <<[line |-> "ITEMS"]>>
         \o GroupLines(Take(items, max_items), TypesInOrder(Take(items, max_items), {}))
         \o (IF Len(items) > max_items
             THEN <<[line |-> "more items", count |-> Len(items) - max_items]>>
             ELSE <<>>)

\* self.item_cache.get(id, id)
Shown(cache, id) == IF id \in DOMAIN cache THEN cache[id] ELSE id

\* if connections: the CONNECTIONS block
ConnectionLines(conns, cache, max_connections) ==
    IF conns = <<>> THEN <<>>
    ELSE <<[line |-> "CONNECTIONS", count |-> Len(conns)]>>
         \o [idx \in DOMAIN Take(conns, max_connections) |->
               [line |-> "connection", idx |-> idx,
                from_text |-> Shown(cache, Get(conns[idx], "from", "")),
                label |-> Get(conns[idx], "label", ""),
                to_text |-> Shown(cache, Get(conns[idx], "to", ""))]]
         \o (IF Len(conns) > max_connections
             THEN <<[line |-> "more connections", count |-> Len(conns) - max_connections]>>
             ELSE <<>>)

\* roots = [nid for nid, node in graph.items()
\*          if not node.get("connections", {}).get("incoming")]
Roots(graph) ==
    {nid \in DOMAIN graph :
        Get(Get(graph[nid], "connections", EmptyDict), "incoming", <<>>) = <<>>}

\* if graph: the graph summary
GraphLines(graph) ==
    IF DOMAIN graph = {} THEN <<>>
    ELSE <<[line |-> "Graph Structure", nodes |-> Cardinality(DOMAIN graph)]>>
         \o (IF Roots(graph) # {}
             THEN <<[line |-> "Root nodes", count |-> Cardinality(Roots(graph))]>>
             ELSE <<>>)

\* the text of a board response and the cache it leaves, for the valves v
_format_board(data, cache, v) ==
    LET meta == Get(data, "metadata", EmptyDict)
        items == Get(data, "items", <<>>)
        filled == CacheItems(cache, Take(items, v.max_items))
    IN  [lines |->
            <<[line |-> "Board", boardId |-> Get(meta, "boardId", "Unknown")],
              [line |-> "Total", items |-> Get(meta, "itemCount", 0),
               connections |-> Get(meta, "connectorCount", 0)]>>
            \o (IF Get(meta, "bounds", "None") # "full board"
                THEN <<[line |-> "Region", bounds |-> Get(meta, "bounds", "None")]>>
                ELSE <<>>)
            \o <<[line |-> ""]>>
            \o ItemLines(items, v.max_items)
            \o ConnectionLines(Get(data, "connections", <<>>), filled, v.max_connections)
            \o GraphLines(Get(data, "graph", EmptyDict)),
         cache |-> filled]

\* one result of a search or one connected item: type, id, shape, text
ResultLine(item, idx) ==
    [line |-> "result", idx |-> idx,
     type |-> Get(item, "type", "unknown"), id |-> Get(item, "id", ""),
     shape |-> Get(Get(item, "style", EmptyDict), "shape", "None"),
     text |-> Strip(Get(item, "text", ""))]

_format_search(data) ==
    LET items == Get(data, "items", <<>>)
    IN  <<[line |-> "Search Query", query |-> Get(data, "query", "")],
          [line |-> "Results Found", count |-> Get(data, "resultCount", 0)]>>
        \o [i \in DOMAIN Take(items, 30) |-> ResultLine(items[i], i)]
        \o (IF Len(items) > 30
            THEN <<[line |-> "more results", count |-> Len(items) - 30]>>
            ELSE <<>>)

\* by_depth[depth][:10]
PathsAt(path_list, depth) ==
    Take(SelectSeq(path_list, LAMBDA path : Get(path, "depth", 0) = depth), 10)

RECURSIVE SortedDepths(_)
\* sorted(by_depth.keys())
SortedDepths(S) ==
    IF S = {} THEN <<>>
    ELSE LET least == CHOOSE d \in S : \A e \in S : d <= e
         IN  <<least>> \o SortedDepths(S \ {least})

RECURSIVE DepthLines(_, _)
\* for depth in sorted(by_depth.keys())[:5]
DepthLines(path_list, depths) ==
    IF depths = <<>> THEN <<>>
    ELSE <<[line |-> "Depth", depth |-> Head(depths)]>>
         \o [i \in DOMAIN PathsAt(path_list, Head(depths)) |->
               [line |-> "path", from |-> PathsAt(path_list, Head(depths))[i].from,
                to |-> PathsAt(path_list, Head(depths))[i].to]]
         \o DepthLines(path_list, Tail(depths))

_format_connections(data) ==
    LET summary == Get(data, "summary", EmptyDict)
        items == Get(data, "items", <<>>)
        found == Get(data, "paths", <<>>)
    IN  <<[line |-> "Connected Path from", startItem |-> Get(data, "startItem", "")],
          [line |-> "Traversal Depth", depth |-> Get(data, "traversalDepth", 0)],
          [line |-> "Found", items |-> Get(summary, "totalItems", 0),
           connections |-> Get(summary, "totalConnections", 0)],
          [line |-> "Max depth reached", depth |-> Get(summary, "maxDepthReached", 0)]>>
        \o (IF items = <<>> THEN <<>>
            ELSE <<[line |-> "CONNECTED ITEMS"]>>
                 \o [idx \in DOMAIN Take(items, 50) |-> ResultLine(items[idx], idx)])
        \o (IF found = <<>> THEN <<>>
            ELSE <<[line |-> "CONNECTION PATHS"]>>
                 \o DepthLines(found,
                       Take(SortedDepths({Get(found[i], "depth", 0) : i \in DOMAIN found}), 5)))

\* the text for the command and the cache left behind
_format_data(data, command, cache, v) ==
    IF command = "search" THEN [lines |-> _format_search(data), cache |-> cache]
    ELSE IF command = "connected_path"
    THEN [lines |-> _format_connections(data), cache |-> cache]
    ELSE _format_board(data, cache, v)

\* data.get("success") and data.get("data")
HasData(json) == Get(json, "success", FALSE) /\ DOMAIN Get(json, "data", EmptyDict) # {}

\* The string _execute_request returns for the response the POST met, and
\* the cache afterwards.
_execute_request(parsed, response, cache, v) ==
    IF response.kind = "TimeoutError"
    THEN [lines |-> <<[line |-> "Request timeout"]>>, cache |-> cache]
    ELSE IF response.kind = "Exception"
    THEN [lines |-> <<[line |-> "Error", error |-> response.error]>>, cache |-> cache]
    ELSE IF response.status = 200
    THEN IF HasData(response.json)
         THEN _format_data(response.json.data, parsed.command, cache, v)
         ELSE [lines |-> <<[line |-> "Error",
                            error |-> Get(response.json, "error", "Unknown error")]>>,
               cache |-> cache]
    ELSE [lines |-> <<[line |-> "Server error", status |-> response.status]>>,
          cache |-> cache]

\* a chat message; 'data' is the text after the heading of an injected
\* message, and empty in any other message
Message(role, content) == [role |-> role, content |-> content, data |-> <<>>]

\* "[Miro Board Data]\n{result}"
system_msg(text) ==
    [role |-> "system", content |-> <<"[Miro Board Data]">>, data |-> text]

\* the appended "\n\n(check mark) Miro data loaded"
Loaded == "Miro data loaded"

\* messages.insert(-1, msg): before the last element
InsertBeforeLast(messages, msg) ==
    SubSeq(messages, 1, Len(messages) - 1) \o <<msg, messages[Len(messages)]>>

NoResponse == [kind |-> "none"]

\* Filter.inlet on the messages of a body, when the server answers the
\* POST (if one is made) with 'response': the messages of the returned
\* body, whether a POST was made, and the cache afterwards.
Inlet(messages, response, cache, v) ==
    LET unchanged == [messages |-> messages, posted |-> FALSE, cache |-> cache]
    IN  IF ~v.enabled THEN unchanged
        ELSE IF messages = <<>> THEN unchanged
        ELSE LET content == messages[Len(messages)].content
                 parsed == _parse_request(content)
             IN  IF parsed = NoParsed THEN unchanged
                 ELSE LET out == _execute_request(parsed, response, cache, v)
                      IN  IF out.lines = <<>>
                          THEN [messages |-> messages, posted |-> TRUE, cache |-> out.cache]
                          ELSE [messages |->
                                   LET inserted == InsertBeforeLast(messages, system_msg(out.lines))
                                   IN  [inserted EXCEPT ![Len(inserted)].content =
                                           Append(content, Loaded)],
                                posted |-> TRUE, cache |-> out.cache]

\* Items of a response: a shape and a text item with texts, and an item
\* whose text is blank.
ItemA == [id |-> "A", type |-> "shape", text |-> "x",
          style |-> [color |-> "None", shape |-> "circle"]]
ItemB == [id |-> "B", type |-> "text", text |-> "y",
          style |-> [color |-> "None", shape |-> "None"]]
ItemBlank == [id |-> "C", type |-> "text", text |-> " ",
              style |-> [color |-> "None", shape |-> "None"]]

ConnAB(label) == [from |-> "A", to |-> "B", label |-> label]
ConnBNone == [from |-> "B", to |-> None, label |-> ""]

\* the graph of a response: a node per item, an edge per connection with
\* both ends
GraphOf(items, conns) ==
    [id \in {items[i].id : i \in DOMAIN items} |->
        LET item == items[CHOOSE i \in DOMAIN items : items[i].id = id]
        IN  [text |-> item.text, type |-> item.type,
             connections |->
                [outgoing |-> SelectSeq(conns, LAMBDA c : c.from = id /\ c.to # None),
                 incoming |-> SelectSeq(conns, LAMBDA c : c.to = id /\ c.from # None)]]]

\* the 'data' of get_board_content: a connection is listed when either of
\* its ends is among the items
BoardData(items, conns, bounds) ==
    [metadata |-> [boardId |-> "b", itemCount |-> Len(items),
                   connectorCount |-> Len(conns), bounds |-> bounds],
     items |-> items, connections |-> conns, graph |-> GraphOf(items, conns)]

\* the 'data' of search_items
SearchData(items) ==
    [query |-> "q", caseSensitive |-> FALSE, resultCount |-> Len(items), items |-> items]

\* the 'data' of get_connected_path
PathData(items, found) ==
    [startItem |-> "A", traversalDepth |-> DefaultDepth, items |-> items, paths |-> found,
     summary |-> [totalItems |-> Len(items), totalConnections |-> Len(found),
                  maxDepthReached |-> MaxOf({found[i].depth : i \in DOMAIN found}, 0)]]

\* the 'data' the server can answer with
Datas ==
    {BoardData(items, conns, "full board") :
        items \in {<<>>, <<ItemA>>, <<ItemA, ItemB>>, <<ItemA, ItemBlank>>},
        conns \in {<<>>, <<ConnAB("l")>>, <<ConnAB(""), ConnBNone>>}}
    \cup {BoardData(<<ItemA>>, <<ConnAB("")>>, "region")}
    \cup {SearchData(<<>>), SearchData(<<ItemA>>)}
    \cup {PathData(<<ItemA>>, <<>>),
          PathData(<<ItemA, ItemB>>, <<[from |-> "A", to |-> "B", depth |-> 1]>>)}

\* What the POST can meet: a timeout, a connection error, a non-200
\* status, or a 200 whose JSON body reports failure, carries no data, or
\* carries data.
Responses ==
    {[kind |-> "TimeoutError"], [kind |-> "Exception", error |-> "Cannot connect"],
     [kind |-> "response", status |-> 500],
     [kind |-> "response", status |-> 200, json |-> [success |-> FALSE, error |-> "boom"]],
     [kind |-> "response", status |-> 200, json |-> [success |-> FALSE]],
     [kind |-> "response", status |-> 200, json |-> [success |-> TRUE, data |-> EmptyDict]]}
    \cup {[kind |-> "response", status |-> 200, json |-> [success |-> TRUE, data |-> d]] :
             d \in Datas}

\* The contents of a last message: without a board reference, and with one
\* alone or beside the words of a command.
Contents ==
    {<<"hi">>, <<"shapes">>, <<"[b]">>, <<"[b]", "shapes">>, <<"find q", "[b]">>,
     <<"[b]", "path from A">>, <<"[b]", "path from A", "depth 1">>,
     <<"[b]", "find q", "shapes">>}

\* body["messages"]: none, one message, or one after an earlier message
Bodies ==
    {<<>>}
    \cup {<<Message("user", c)>> : c \in Contents}
    \cup {<<Message("assistant", <<"hi">>), Message("user", c)>> :
             c \in {<<"hi">>, <<"[b]">>}}

\* One call of inlet, the POST included.
inlet ==
    /\ \E messages \in Bodies, response \in Responses :
          LET out == Inlet(messages, response, item_cache, valves)
          IN  /\ item_cache' = out.cache
              /\ chat' = [status |-> "returned",
                          body |-> messages,
                          response |-> IF out.posted THEN response ELSE NoResponse,
                          messages |-> out.messages]
    /\ UNCHANGED <<core_vars, sse_vars, valves>>

\* The valves an administrator can set: the filter on or off, and the
\* display limits at their defaults or one of them at one.
ValveSettings ==
    {[DefaultValves EXCEPT !.enabled = e] : e \in BOOLEAN}
    \cup {[DefaultValves EXCEPT !.max_items = 1],
          [DefaultValves EXCEPT !.max_connections = 1]}

\* A Filter instance as constructed, under some valves; the server side is
\* not part of this process.
InitInlet ==
    /\ valves \in ValveSettings
    /\ item_cache = EmptyCache
    /\ chat = NoChat
    /\ sse_connections = NoConnections
    /\ streams = NoConnections
    /\ access_token = FALSE
    /\ upstream = [items |-> <<>>, connectors |-> <<>>, fail |-> NoFail]
    /\ call = NoCall
    /\ InitCore

SpecInlet == InitInlet /\ [][inlet]_vars

----------------------------------------------------------------------------
(* C24: ownership of the display cache *)

\* the request parsed from the last message of the body inlet was given
ChatRequest == _parse_request(chat.body[Len(chat.body)].content)

\* The last call of inlet made a board request and the server answered it
\* with data, so its text came from _format_board.
BoardFormatted ==
    /\ chat.status = "returned"
    /\ chat.response.kind = "response"
    /\ chat.response.status = 200
    /\ HasData(chat.response.json)
    /\ ChatRequest.command = "full_board"

\* the text of the message inlet injected
Injected == chat.messages[Len(chat.messages) - 1].data

\* C24: the text a board request is answered with is determined by that
\* request's own response: it is the text a Filter instance that served no
\* request before gives for the same response.
C24_CacheOwnedByInvocation ==
    BoardFormatted =>
        Injected = _format_board(chat.response.json.data, EmptyCache, valves).lines

\* A board request whose response lists a connection to B without the item
\* B is shown B's text, which only an earlier response carried.
C24_StaleText ==
    /\ BoardFormatted
    /\ chat.response.json.data.items = <<ItemA>>
    /\ \E i \in DOMAIN Injected :
          /\ Injected[i].line = "connection"
          /\ Injected[i].to_text = ItemB.text

----------------------------------------------------------------------------
(* C26: what inlet returns *)

Returned == chat.status = "returned"

\* inlet made the POST
Posted == Returned /\ chat.response.kind # "none"

\* the server request succeeded and returned board data
GotData ==
    /\ Posted
    /\ chat.response.kind = "response"
    /\ chat.response.status = 200
    /\ HasData(chat.response.json)

\* The returned messages are those of the body with one system message
\* headed '[Miro Board Data]' immediately before the last message and the
\* mark appended to the last message.
DataInjected ==
    LET n == Len(chat.body)
    IN  /\ Len(chat.messages) = n + 1
        /\ \A i \in 1..(n - 1) : chat.messages[i] = chat.body[i]
        /\ chat.messages[n].role = "system"
        /\ chat.messages[n].content = <<"[Miro Board Data]">>
        /\ chat.messages[n + 1] =
              [chat.body[n] EXCEPT !.content = Append(chat.body[n].content, Loaded)]

\* C26: inlet injects the system message and the mark exactly when the
\* server request succeeded and returned data; in every other case (the
\* filter disabled, no messages, no board reference, a failed request) the
\* messages are returned unchanged.
C26_InjectsOnlyOnData ==
    Returned => IF GotData THEN DataInjected ELSE chat.messages = chat.body

\* Without a request to the server (the filter disabled, no messages, no
\* board reference) the messages are returned unchanged, and with data
\* they are returned with the injection.
C26_UnchangedWithoutRequest ==
    /\ Returned /\ ~Posted => chat.messages = chat.body
    /\ GotData => DataInjected
    /\ Returned =>
          (Posted <=> (valves.enabled /\ chat.body # <<>> /\ ChatRequest # NoParsed))

\* A failed request is injected as well: its error text stands where the
\* board data would.
C26_FailureInjected ==
    Posted /\ ~GotData =>
        /\ DataInjected
        /\ Len(chat.messages[Len(chat.body)].data) = 1
        /\ chat.messages[Len(chat.body)].data[1].line
              \in {"Request timeout", "Error", "Server error"}

C26_FailureWitness ==
    /\ Posted
    /\ chat.response.kind = "response"
    /\ chat.response.status = 500
    /\ DataInjected

----------------------------------------------------------------------------
(* SSE registry: connections, sse_get, event_generator, /health.  A stream *)
(* is the StreamingResponse sse_get returns: its generator has been        *)
(* created, is running (suspended at a yield or at the wait on its         *)
(* queue), has run its finally clause, or was discarded without ever       *)
(* being iterated; its client is connected or gone.  Nothing in the        *)
(* server puts a message on a registered queue, so every wait on it ends   *)
(* in the 30 s timeout.                                                    *)

MaxStreams == 3

\* the values str(uuid.uuid4()) can take
ConnectionIds == 1..MaxStreams

\* the ids a new uuid4 does not collide with
UsedIds(opened) == DOMAIN opened

\* GET /sse: register a new queue under a fresh id and return the response
\* that wraps the generator; the generator body has not been entered.
sse_get(connection_id) ==
    /\ connection_id \notin UsedIds(streams)
    /\ sse_connections' =
          [c \in DOMAIN sse_connections \cup {connection_id} |->
              IF c = connection_id THEN <<>> ELSE sse_connections[c]]
    /\ streams' =
          [c \in DOMAIN streams \cup {connection_id} |->
              IF c = connection_id
              THEN [generator |-> "created", client |-> "connected", last |-> "none"]
              ELSE streams[c]]
    /\ UNCHANGED <<core_vars, filter_vars>>

\* The response starts iterating the generator: the body is entered and
\* yields the connection event.
event_generator(connection_id) ==
    /\ connection_id \in DOMAIN streams
    /\ streams[connection_id].generator = "created"
    /\ streams' = [streams EXCEPT ![connection_id].generator = "running",
                                  ![connection_id].last = "connection"]
    /\ UNCHANGED <<core_vars, filter_vars, sse_connections>>

\* except asyncio.TimeoutError: yield ": keepalive\n\n"
keepalive(connection_id) ==
    /\ connection_id \in DOMAIN streams
    /\ streams[connection_id].generator = "running"
    /\ streams[connection_id].client = "connected"
    /\ streams' = [streams EXCEPT ![connection_id].last = "keepalive"]
    /\ UNCHANGED <<core_vars, filter_vars, sse_connections>>

\* The client closes the connection.
disconnect(connection_id) ==
    /\ connection_id \in DOMAIN streams
    /\ streams[connection_id].client = "connected"
    /\ streams' = [streams EXCEPT ![connection_id].client = "gone"]
    /\ UNCHANGED <<core_vars, filter_vars, sse_connections>>

\* connections.pop(connection_id, None)
Pop(registry, connection_id) ==
    [c \in DOMAIN registry \ {connection_id} |-> registry[c]]

\* The running generator of a client that is gone is cancelled at its wait
\* or closed at its yield: the finally clause runs.
event_generator_finally(connection_id) ==
    /\ connection_id \in DOMAIN streams
    /\ streams[connection_id].generator = "running"
    /\ streams[connection_id].client = "gone"
    /\ sse_connections' = Pop(sse_connections, connection_id)
    /\ streams' = [streams EXCEPT ![connection_id].generator = "closed"]
    /\ UNCHANGED <<core_vars, filter_vars>>

\* The response of a client that is gone is cancelled before it iterated
\* the generator: the body was never entered, so no finally clause runs.
response_cancelled(connection_id) ==
    /\ connection_id \in DOMAIN streams
    /\ streams[connection_id].generator = "created"
    /\ streams[connection_id].client = "gone"
    /\ streams' = [streams EXCEPT ![connection_id].generator = "discarded"]
    /\ UNCHANGED <<core_vars, filter_vars, sse_connections>>

\* GET /health: "active_connections": len(connections)
health == [status |-> "healthy", active_connections |-> Cardinality(DOMAIN sse_connections)]

\* The server as started: no stream, no call in progress.
InitSse ==
    /\ InitIdle
    /\ access_token = TRUE
    /\ upstream = [items |-> <<>>, connectors |-> <<>>, fail |-> NoFail]
    /\ call = NoCall
    /\ InitCore

NextSse ==
    \E connection_id \in ConnectionIds :
        \/ sse_get(connection_id)
        \/ event_generator(connection_id)
        \/ keepalive(connection_id)
        \/ disconnect(connection_id)
        \/ event_generator_finally(connection_id)
        \/ response_cancelled(connection_id)

\* The event loop runs every step of a response that is ready to run;
\* clients open and close connections as they please.
SpecSse ==
    /\ InitSse
    /\ [][NextSse]_vars
    /\ \A connection_id \in ConnectionIds :
          /\ WF_vars(event_generator(connection_id))
          /\ WF_vars(event_generator_finally(connection_id))
          /\ WF_vars(response_cancelled(connection_id))

----------------------------------------------------------------------------
(* C25: the registry tracks live streams *)

Registered(connection_id) == connection_id \in DOMAIN sse_connections

ClientGone(connection_id) ==
    /\ connection_id \in DOMAIN streams
    /\ streams[connection_id].client = "gone"

\* C25: every entry whose client has disconnected, at any point of the
\* stream, is eventually removed from the registry.
C25_GoneEventuallyRemoved ==
    \A connection_id \in ConnectionIds :
        (Registered(connection_id) /\ ClientGone(connection_id))
            ~> ~Registered(connection_id)

\* Every GET /sse registers exactly one entry, under an id no stream had
\* before, and nothing else registers.
C25_FreshEntry ==
    [][\A connection_id \in ConnectionIds :
          (Registered(connection_id)' /\ ~Registered(connection_id)) =>
              /\ connection_id \notin DOMAIN streams
              /\ DOMAIN sse_connections' = DOMAIN sse_connections \cup {connection_id}]_vars

\* An entry whose generator was entered is removed once its client is
\* gone, and /health counts exactly the entries not removed.
C25_StartedRemoved ==
    /\ \A connection_id \in ConnectionIds :
          (ClientGone(connection_id) /\ streams[connection_id].generator = "running")
              ~> ~Registered(connection_id)
    /\ [](health.active_connections =
             Cardinality({c \in DOMAIN streams :
                            streams[c].generator \notin {"closed"}}))

\* Every client is gone, no response has a step left, and an entry is
\* still registered: /health reports a connection that does not exist.
C25_Leaked ==
    /\ DOMAIN streams # {}
    /\ \A c \in DOMAIN streams :
          /\ streams[c].client = "gone"
          /\ streams[c].generator \in {"closed", "discarded"}
    /\ health.active_connections > 0

====
